---- MODULE Spec2Model ----
(***************************************************************************)
(* Model of the interactive game controller of japanese_mahjong_theory:    *)
(* GameManager (game/game_manager.rs) over Haiyama (haiyama.rs) and Tehai  *)
(* (tehai.rs).  Every handler is an operator that is computed the way the  *)
(* code computes it, including its backups and restores; the actions apply *)
(* those operators to the session.                                         *)
(***************************************************************************)
EXTENDS Integers, Sequences, FiniteSets, TLC

(***************************************************************************)
(* Tiles.  Hai derives Ord: Manzu < Pinzu < Souzu < Jihai, then the number.*)
(* A tile is encoded as 10 * suit + number, which has the same order.      *)
(***************************************************************************)
Manzu(n) == n
Pinzu(n) == 10 + n
Souzu(n) == 20 + n
Jihai(n) == 30 + n

HaiSuit(hai) == hai \div 10
HaiNum(hai) == hai % 10

\* A validity that knows no three-player mode.
is_valid_four(hai, player_number) ==
    \/ HaiSuit(hai) \in {0, 1, 2} /\ HaiNum(hai) \in 1..9
    \/ HaiSuit(hai) = 3 /\ HaiNum(hai) \in 1..7

\* Hai::is_valid
is_valid(hai, player_number) ==
    \/ HaiSuit(hai) = 0 /\ player_number = "Four" /\ HaiNum(hai) \in 1..9
    \/ HaiSuit(hai) = 0 /\ player_number = "Three" /\ HaiNum(hai) \in {1, 9}
    \/ HaiSuit(hai) \in {1, 2} /\ HaiNum(hai) \in 1..9
    \/ HaiSuit(hai) = 3 /\ HaiNum(hai) \in 1..7

all_type(player_number) ==
    (IF player_number = "Four" THEN {Manzu(i) : i \in 1..9}
                               ELSE {Manzu(1), Manzu(9)})
    \cup {Pinzu(i) : i \in 1..9} \cup {Souzu(i) : i \in 1..9}
    \cup {Jihai(i) : i \in 1..7}

\* The controller starts every session in four-player mode.
player_number == "Four"

(***************************************************************************)
(* Vec helpers.                                                            *)
(***************************************************************************)
RECURSIVE CountIn(_, _)
CountIn(vec, x) ==
    IF vec = <<>> THEN 0
    ELSE (IF Head(vec) = x THEN 1 ELSE 0) + CountIn(Tail(vec), x)

\* Vec::remove(index)
RemoveAt(vec, index) ==
    [i \in 1..(Len(vec) - 1) |-> IF i < index THEN vec[i] ELSE vec[i + 1]]

\* index of the first element satisfying equality with x, 0 if none
FirstIndex(vec, x) ==
    IF \E i \in 1..Len(vec) : vec[i] = x
    THEN CHOOSE i \in 1..Len(vec) :
            vec[i] = x /\ \A j \in 1..(i - 1) : vec[j] # x
    ELSE 0

RECURSIVE InsertSorted(_, _)
InsertSorted(vec, x) ==
    IF vec = <<>> THEN <<x>>
    ELSE IF x < Head(vec) THEN <<x>> \o vec
    ELSE <<Head(vec)>> \o InsertSorted(Tail(vec), x)

\* Vec<Hai>::sort()
RECURSIVE Sort(_)
Sort(vec) ==
    IF vec = <<>> THEN <<>> ELSE InsertSorted(Sort(Tail(vec)), Head(vec))

(***************************************************************************)
(* Mentsu (combination.rs) and Option values.                              *)
(***************************************************************************)
Juntsu(a, b, c) == [kind |-> "Juntsu", a |-> a, b |-> b, c |-> c]
Koutsu(hai) == [kind |-> "Koutsu", hai |-> hai]
Kantsu(hai) == [kind |-> "Kantsu", hai |-> hai]

None == <<>>
Some(x) == <<x>>

\* Hai::previous: the tile before hai, None if there is none.
previous(hai, number, dora_loop) ==
    LET num == HaiNum(hai) IN
    IF HaiSuit(hai) = 0 THEN
        IF number = "Four" THEN
            IF num # 1 THEN Some(Manzu(num - 1))
            ELSE IF dora_loop THEN Some(Manzu(9))
            ELSE None
        ELSE IF dora_loop THEN
            IF num = 1 THEN Some(Manzu(9))
            ELSE IF num = 9 THEN Some(Manzu(1))
            ELSE None
        ELSE None
    ELSE IF HaiSuit(hai) \in {1, 2} THEN
        IF num # 1 THEN Some(hai - 1)
        ELSE IF dora_loop THEN Some(hai + 8)
        ELSE None
    ELSE
        IF dora_loop THEN
            IF num = 1 THEN Some(Jihai(4))
            ELSE IF num = 5 THEN Some(Jihai(7))
            ELSE Some(Jihai(num - 1))
        ELSE IF num # 1 THEN Some(Jihai(num - 1))
        ELSE None

\* A next that steps to the following number and knows no ring.
next_linear(hai, number, dora_loop) ==
    IF HaiNum(hai) # 9 THEN Some(hai + 1) ELSE None

\* Hai::next: the tile after hai, None if there is none.
next(hai, number, dora_loop) ==
    LET num == HaiNum(hai) IN
    IF HaiSuit(hai) = 0 THEN
        IF number = "Four" THEN
            IF num # 9 THEN Some(Manzu(num + 1))
            ELSE IF dora_loop THEN Some(Manzu(1))
            ELSE None
        ELSE IF dora_loop THEN
            IF num = 1 THEN Some(Manzu(9))
            ELSE IF num = 9 THEN Some(Manzu(1))
            ELSE None
        ELSE None
    ELSE IF HaiSuit(hai) \in {1, 2} THEN
        IF num # 9 THEN Some(hai + 1)
        ELSE IF dora_loop THEN Some(hai - 8)
        ELSE None
    ELSE
        IF dora_loop THEN
            IF num = 4 THEN Some(Jihai(1))
            ELSE IF num = 7 THEN Some(Jihai(5))
            ELSE Some(Jihai(num + 1))
        ELSE IF num # 7 THEN Some(Jihai(num + 1))
        ELSE None

(***************************************************************************)
(* Haiyama (haiyama.rs): a map from every valid tile to a u8 count.        *)
(***************************************************************************)
HaiLimit == 4

HaiyamaNew == [hai \in all_type(player_number) |-> HaiLimit]

\* Haiyama::add
HaiyamaAdd(map, hai) ==
    IF map[hai] < HaiLimit
    THEN [ok |-> TRUE, map |-> [map EXCEPT ![hai] = map[hai] + 1]]
    ELSE [ok |-> FALSE, map |-> map]

\* Haiyama::discard without its `*number > 0` test.
HaiyamaDiscardUnchecked(map, hai) ==
    [ok |-> TRUE, map |-> [map EXCEPT ![hai] = map[hai] - 1]]

\* Haiyama::discard
HaiyamaDiscard(map, hai) ==
    IF map[hai] > 0
    THEN [ok |-> TRUE, map |-> [map EXCEPT ![hai] = map[hai] - 1]]
    ELSE [ok |-> FALSE, map |-> map]

\* The loop of add_with_vec: stops at the first tile that fails.
RECURSIVE AddLoop(_, _)
AddLoop(map, hai_vec) ==
    IF hai_vec = <<>> THEN [ok |-> TRUE, map |-> map]
    ELSE LET r == HaiyamaAdd(map, Head(hai_vec))
         IN IF r.ok THEN AddLoop(r.map, Tail(hai_vec))
            ELSE [ok |-> FALSE, map |-> r.map]

\* Haiyama::add_with_vec
add_with_vec(map, hai_vec, auto_restore) ==
    LET r == AddLoop(map, hai_vec)
    IN IF r.ok THEN r
       ELSE [ok |-> FALSE, map |-> IF auto_restore THEN map ELSE r.map]

RECURSIVE DiscardLoop(_, _)
DiscardLoop(map, hai_vec) ==
    IF hai_vec = <<>> THEN [ok |-> TRUE, map |-> map]
    ELSE LET r == HaiyamaDiscard(map, Head(hai_vec))
         IN IF r.ok THEN DiscardLoop(r.map, Tail(hai_vec))
            ELSE [ok |-> FALSE, map |-> r.map]

\* Haiyama::discard_with_vec without the restore of the backup.
discard_with_vec_no_restore(map, hai_vec, auto_restore) == DiscardLoop(map, hai_vec)

\* Haiyama::discard_with_vec
discard_with_vec(map, hai_vec, auto_restore) ==
    LET r == DiscardLoop(map, hai_vec)
    IN IF r.ok THEN r
       ELSE [ok |-> FALSE, map |-> IF auto_restore THEN map ELSE r.map]

(***************************************************************************)
(* Tehai (tehai.rs): juntehai is the free part, fuuro the called melds.    *)
(***************************************************************************)
Tehai(juntehai, fuuro) == [juntehai |-> juntehai, fuuro |-> fuuro]

\* Tehai::discard: removes the first tile equal to hai.
TehaiDiscard(tehai, hai) ==
    LET index == FirstIndex(tehai.juntehai, hai)
    IN IF index # 0
       THEN [ok |-> TRUE,
             tehai |-> [tehai EXCEPT !.juntehai = RemoveAt(tehai.juntehai, index)]]
       ELSE [ok |-> FALSE, tehai |-> tehai]

\* discard each tile of hai_vec in turn, stopping at the first failure
RECURSIVE TehaiDiscardAll(_, _)
TehaiDiscardAll(tehai, hai_vec) ==
    IF hai_vec = <<>> THEN [ok |-> TRUE, tehai |-> tehai]
    ELSE LET r == TehaiDiscard(tehai, Head(hai_vec))
         IN IF r.ok THEN TehaiDiscardAll(r.tehai, Tail(hai_vec)) ELSE r

\* Tehai::chii
chii(tehai, juntsu, nakihai) ==
    IF juntsu.kind = "Juntsu"
    THEN LET rest == SelectSeq(<<juntsu.a, juntsu.b, juntsu.c>>,
                               LAMBDA hai : hai # nakihai)
             r == TehaiDiscardAll(tehai, rest)
         IN IF r.ok
            THEN [ok |-> TRUE,
                  tehai |-> [r.tehai EXCEPT !.fuuro = Append(r.tehai.fuuro, juntsu)]]
            ELSE [ok |-> FALSE, tehai |-> tehai]
    ELSE [ok |-> FALSE, tehai |-> tehai]

\* Tehai::pon taking three tiles out of juntehai instead of two.
pon_three(tehai, koutsu) ==
    IF koutsu.kind = "Koutsu"
    THEN LET r == TehaiDiscardAll(tehai, <<koutsu.hai, koutsu.hai, koutsu.hai>>)
         IN IF r.ok
            THEN [ok |-> TRUE,
                  tehai |-> [r.tehai EXCEPT !.fuuro = Append(r.tehai.fuuro, koutsu)]]
            ELSE [ok |-> FALSE, tehai |-> tehai]
    ELSE [ok |-> FALSE, tehai |-> tehai]

\* Tehai::pon
pon(tehai, koutsu) ==
    IF koutsu.kind = "Koutsu"
    THEN LET r == TehaiDiscardAll(tehai, <<koutsu.hai, koutsu.hai>>)
         IN IF r.ok
            THEN [ok |-> TRUE,
                  tehai |-> [r.tehai EXCEPT !.fuuro = Append(r.tehai.fuuro, koutsu)]]
            ELSE [ok |-> FALSE, tehai |-> tehai]
    ELSE [ok |-> FALSE, tehai |-> tehai]

\* The fuuro scan of Tehai::kan (tehai.rs:360-368): it looks for a meld of the
\* kan tile to promote, and the pattern it matches is Mentsu::Kantsu.
ExistKoutsuIndex(fuuro, hai) == FirstIndex(fuuro, Kantsu(hai))

\* The decision of Tehai::kan with the concealed kan taken at three copies.
KanKindAnkanAtThree(len, hai_num, exist_koutsu) ==
    IF len % 3 = 2
    THEN IF hai_num = 1 /\ exist_koutsu THEN "Kakan"
         ELSE IF hai_num = 3 /\ ~exist_koutsu THEN "Ankan"
         ELSE "Unknown"
    ELSE IF len % 3 = 1
    THEN IF hai_num = 3 /\ ~exist_koutsu THEN "Daiminkan" ELSE "Unknown"
    ELSE "Unknown"

\* The decision of Tehai::kan with the called kan taken at two copies or more.
KanKindDaiminkanFromTwo(len, hai_num, exist_koutsu) ==
    IF len % 3 = 2
    THEN IF hai_num = 1 /\ exist_koutsu THEN "Kakan"
         ELSE IF hai_num = 4 /\ ~exist_koutsu THEN "Ankan"
         ELSE "Unknown"
    ELSE IF len % 3 = 1
    THEN IF hai_num >= 2 /\ ~exist_koutsu THEN "Daiminkan" ELSE "Unknown"
    ELSE "Unknown"

\* The decision of Tehai::kan (tehai.rs:370-411) from the size of juntehai, the
\* copies of the kan tile in it and whether the fuuro scan found a meld.
KanKind(len, hai_num, exist_koutsu) ==
    IF len % 3 = 2
    THEN IF hai_num = 1 /\ exist_koutsu THEN "Kakan"
         ELSE IF hai_num = 4 /\ ~exist_koutsu THEN "Ankan"
         ELSE "Unknown"
    ELSE IF len % 3 = 1
    THEN IF hai_num = 3 /\ ~exist_koutsu THEN "Daiminkan" ELSE "Unknown"
    ELSE "Unknown"

\* Tehai::kan.  kan is the resolved kind, "Unknown" when it fails.
kan(tehai, kantsu, rinshanhai) ==
    LET fail == [ok |-> FALSE, tehai |-> tehai, kan |-> "Unknown"]
    IN IF kantsu.kind # "Kantsu" THEN fail
       ELSE
       LET hai == kantsu.hai
           hai_num == CountIn(tehai.juntehai, hai)
           exist_koutsu_index == ExistKoutsuIndex(tehai.fuuro, hai)
           k == KanKind(Len(tehai.juntehai), hai_num, exist_koutsu_index # 0)
           \* the tiles leave juntehai one Tehai::discard at a time
           r == TehaiDiscardAll(tehai, [i \in 1..hai_num |-> hai])
           t == IF k = "Kakan"
                THEN [r.tehai EXCEPT !.fuuro[exist_koutsu_index] = kantsu]
                ELSE [r.tehai EXCEPT !.fuuro = Append(r.tehai.fuuro, kantsu)]
       IN IF k = "Unknown" THEN fail
          ELSE [ok |-> TRUE, kan |-> k,
                \* "Deal with rinshanhai": push and sort
                tehai |-> IF rinshanhai # None
                          THEN [t EXCEPT !.juntehai =
                                    Sort(Append(t.juntehai, rinshanhai[1]))]
                          ELSE t]

\* Tehai::de_chii
de_chii(tehai, juntsu, nakihai) ==
    LET index == FirstIndex(tehai.fuuro, juntsu)
    IN IF juntsu.kind # "Juntsu" \/ index = 0
       THEN [ok |-> FALSE, tehai |-> tehai]
       ELSE [ok |-> TRUE,
             tehai |-> Tehai(
                 Sort(tehai.juntehai \o
                      SelectSeq(<<juntsu.a, juntsu.b, juntsu.c>>,
                                LAMBDA hai : hai # nakihai)),
                 RemoveAt(tehai.fuuro, index))]

\* Tehai::de_pon
de_pon(tehai, koutsu) ==
    LET index == FirstIndex(tehai.fuuro, koutsu)
    IN IF koutsu.kind # "Koutsu" \/ index = 0
       THEN [ok |-> FALSE, tehai |-> tehai]
       ELSE [ok |-> TRUE,
             tehai |-> Tehai(Sort(tehai.juntehai \o <<koutsu.hai, koutsu.hai>>),
                             RemoveAt(tehai.fuuro, index))]

\* The pushes of Tehai::de_kan with three tiles returned for an Ankan too.
ReturnedCopiesThree(kan_kind) == IF kan_kind = "Kakan" THEN 1 ELSE 3

\* The tiles Tehai::de_kan pushes back on juntehai: three for a Daiminkan, four
\* for an Ankan, one for a Kakan.
ReturnedCopies(kan_kind) ==
    IF kan_kind = "Daiminkan" THEN 3 ELSE IF kan_kind = "Ankan" THEN 4 ELSE 1

\* Tehai::de_kan.  The returned tiles are pushed at the end of juntehai and the
\* function does not sort afterwards.
de_kan(tehai, kan_kind, kantsu, rinshanhai) ==
    LET fail == [ok |-> FALSE, tehai |-> tehai]
        index == FirstIndex(tehai.fuuro, kantsu)
        hai == kantsu.hai
    IN IF kan_kind \notin {"Daiminkan", "Ankan", "Kakan"} THEN fail
       ELSE IF kantsu.kind # "Kantsu" \/ index = 0 THEN fail
       ELSE
       LET t == Tehai(tehai.juntehai \o [i \in 1..ReturnedCopies(kan_kind) |-> hai],
                      IF kan_kind = "Kakan"
                      THEN Append(RemoveAt(tehai.fuuro, index), Koutsu(hai))
                      ELSE RemoveAt(tehai.fuuro, index))
       IN IF rinshanhai # None
          THEN LET r == TehaiDiscard(t, rinshanhai[1])
               IN IF r.ok THEN r ELSE fail
          ELSE [ok |-> TRUE, tehai |-> t]

\* copies of hai in a meld
MentsuCount(mentsu, hai) ==
    IF mentsu.kind = "Juntsu"
    THEN CountIn(<<mentsu.a, mentsu.b, mentsu.c>>, hai)
    ELSE IF mentsu.hai # hai THEN 0
    ELSE IF mentsu.kind = "Koutsu" THEN 3 ELSE 4

RECURSIVE FuuroCount(_, _)
FuuroCount(fuuro, hai) ==
    IF fuuro = <<>> THEN 0
    ELSE MentsuCount(Head(fuuro), hai) + FuuroCount(Tail(fuuro), hai)

\* copies of hai in the whole hand, as check_hai_number counts them
HaiNumber(tehai, hai) == CountIn(tehai.juntehai, hai) + FuuroCount(tehai.fuuro, hai)

\* Tehai::check_hai_number
check_hai_number(tehai) ==
    \A hai \in all_type(player_number) : HaiNumber(tehai, hai) <= HaiLimit

(***************************************************************************)
(* Operations (game_manager.rs:26-84).  `type` names the variant; a Kan    *)
(* carries its kind in `kan`, "Unknown" as the controller builds it.       *)
(***************************************************************************)
OpInitialize(t) == [type |-> "Initialize", tehai |-> t]
OpAdd(hai, sens) == [type |-> "Add", hai |-> hai, haiyama_sensitive |-> sens]
OpDiscard(hai) == [type |-> "Discard", hai |-> hai]
OpChii(juntsu, nakihai, sens) ==
    [type |-> "Chii", juntsu |-> juntsu, nakihai |-> nakihai,
     haiyama_sensitive |-> sens]
OpPon(koutsu, sens) == [type |-> "Pon", koutsu |-> koutsu, haiyama_sensitive |-> sens]
OpKan(k, kantsu, rinshanhai, sens) ==
    [type |-> "Kan", kan |-> k, kantsu |-> kantsu, rinshanhai |-> rinshanhai,
     haiyama_sensitive |-> sens]
OpHaiyamaAdd(hai_vec, sens) ==
    [type |-> "HaiyamaAdd", hai_vec |-> hai_vec, haiyama_sensitive |-> sens]
OpHaiyamaDiscard(hai_vec, sens) ==
    [type |-> "HaiyamaDiscard", hai_vec |-> hai_vec, haiyama_sensitive |-> sens]

(***************************************************************************)
(* Parsing (hai.rs, combination.rs, tehai.rs, command.rs).  A string is a  *)
(* sequence of one-character strings; `number` is the PlayerNumber.  A     *)
(* parser returns ok and, when ok, what it built.                          *)
(***************************************************************************)
TypeChars == {"m", "p", "s", "z"}
DigitChars == {"1", "2", "3", "4", "5", "6", "7", "8", "9"}

\* `chr as u8 - 48` on a digit
DigitValue(chr) ==
    CASE chr = "1" -> 1 [] chr = "2" -> 2 [] chr = "3" -> 3
      [] chr = "4" -> 4 [] chr = "5" -> 5 [] chr = "6" -> 6
      [] chr = "7" -> 7 [] chr = "8" -> 8 [] chr = "9" -> 9

\* the tile handle_char_stash builds from a type character and a stashed digit
StashHai(hai_type, chr) ==
    CASE hai_type = "m" -> Manzu(DigitValue(chr))
      [] hai_type = "p" -> Pinzu(DigitValue(chr))
      [] hai_type = "s" -> Souzu(DigitValue(chr))
      [] hai_type = "z" -> Jihai(DigitValue(chr))

\* Hai::check_iter_valid
check_iter_valid(hai_vec, number) ==
    \A k \in 1..Len(hai_vec) : is_valid(hai_vec[k], number)

\* handle_char_stash (the same in Hai::from_string_unordered and Tehai::new):
\* an empty stash is an error; every stashed digit becomes a tile of the
\* type, and the first invalid tile is an error.
handle_char_stash(hai_type, number, char_stash) ==
    IF char_stash = <<>>
    THEN [ok |-> FALSE, hai |-> <<>>]
    ELSE IF check_iter_valid([k \in 1..Len(char_stash) |->
                                 StashHai(hai_type, char_stash[k])], number)
    THEN [ok |-> TRUE,
          hai |-> [k \in 1..Len(char_stash) |-> StashHai(hai_type, char_stash[k])]]
    ELSE [ok |-> FALSE, hai |-> <<>>]

\* the loop of Hai::from_string_unordered from character index on; digits left
\* in the stash at the end of the string are dropped
RECURSIVE FromStringLoop(_, _, _, _, _)
FromStringLoop(string, number, index, char_stash, hai_vec) ==
    IF index > Len(string) THEN [ok |-> TRUE, hai_vec |-> hai_vec]
    ELSE IF string[index] \in TypeChars THEN
        IF handle_char_stash(string[index], number, char_stash).ok
        THEN FromStringLoop(string, number, index + 1, <<>>,
                 hai_vec \o handle_char_stash(string[index], number, char_stash).hai)
        ELSE [ok |-> FALSE, hai_vec |-> <<>>]
    ELSE IF string[index] \in DigitChars THEN
        FromStringLoop(string, number, index + 1,
                       Append(char_stash, string[index]), hai_vec)
    ELSE IF string[index] = " " THEN
        FromStringLoop(string, number, index + 1, char_stash, hai_vec)
    ELSE [ok |-> FALSE, hai_vec |-> <<>>]

\* Hai::from_string_unordered
from_string_unordered(string, number) ==
    FromStringLoop(string, number, 1, <<>>, <<>>)

\* check_juntsu of Mentsu::new: three conditional swaps put the numbers in
\* order; the result is Some if they are consecutive
SwapIf(vec, i, j) ==
    IF vec[i] > vec[j] THEN [vec EXCEPT ![i] = vec[j], ![j] = vec[i]] ELSE vec
check_juntsu(a, b, c) ==
    IF /\ SwapIf(SwapIf(SwapIf(<<a, b, c>>, 1, 2), 1, 3), 2, 3)[1] + 1
            = SwapIf(SwapIf(SwapIf(<<a, b, c>>, 1, 2), 1, 3), 2, 3)[2]
       /\ SwapIf(SwapIf(SwapIf(<<a, b, c>>, 1, 2), 1, 3), 2, 3)[2] + 1
            = SwapIf(SwapIf(SwapIf(<<a, b, c>>, 1, 2), 1, 3), 2, 3)[3]
    THEN Some(SwapIf(SwapIf(SwapIf(<<a, b, c>>, 1, 2), 1, 3), 2, 3))
    ELSE None

\* the run Mentsu::new builds in a suit (0 Manzu, 1 Pinzu, 2 Souzu)
JuntsuIn(suit, a, b, c) ==
    IF check_juntsu(a, b, c) = None THEN None
    ELSE Some(Juntsu(10 * suit + check_juntsu(a, b, c)[1][1],
                     10 * suit + check_juntsu(a, b, c)[1][2],
                     10 * suit + check_juntsu(a, b, c)[1][3]))

\* Mentsu::new
MentsuNew(hai_vec, number) ==
    IF ~check_iter_valid(hai_vec, number) THEN None
    ELSE IF Len(hai_vec) = 4 THEN
        IF hai_vec[1] = hai_vec[2] /\ hai_vec[1] = hai_vec[3] /\ hai_vec[1] = hai_vec[4]
        THEN Some(Kantsu(hai_vec[1]))
        ELSE None
    ELSE IF Len(hai_vec) = 3 THEN
        IF hai_vec[1] = hai_vec[2] /\ hai_vec[1] = hai_vec[3]
        THEN Some(Koutsu(hai_vec[1]))
        ELSE IF \A k \in 1..3 : HaiSuit(hai_vec[k]) = 0 THEN
            IF number = "Four"
            THEN JuntsuIn(0, HaiNum(hai_vec[1]), HaiNum(hai_vec[2]), HaiNum(hai_vec[3]))
            ELSE None
        ELSE IF \A k \in 1..3 : HaiSuit(hai_vec[k]) = 1 THEN
            JuntsuIn(1, HaiNum(hai_vec[1]), HaiNum(hai_vec[2]), HaiNum(hai_vec[3]))
        ELSE IF \A k \in 1..3 : HaiSuit(hai_vec[k]) = 2 THEN
            JuntsuIn(2, HaiNum(hai_vec[1]), HaiNum(hai_vec[2]), HaiNum(hai_vec[3]))
        ELSE None
    ELSE None

\* A completion that leaves juntehai in the order of the input.
TehaiFinishUnsorted(juntehai, fuuro) ==
    IF check_hai_number(Tehai(juntehai, fuuro))
    THEN [ok |-> TRUE, tehai |-> Some(Tehai(juntehai, fuuro))]
    ELSE [ok |-> FALSE, tehai |-> None]

\* the end of Tehai::new: juntehai is sorted and the hand is returned unless
\* it has a fifth copy of a tile
TehaiFinish(juntehai, fuuro) ==
    IF check_hai_number(Tehai(Sort(juntehai), fuuro))
    THEN [ok |-> TRUE, tehai |-> Some(Tehai(Sort(juntehai), fuuro))]
    ELSE [ok |-> FALSE, tehai |-> None]

\* the loop of Tehai::new from character index on
RECURSIVE TehaiNewLoop(_, _, _, _, _, _, _, _)
TehaiNewLoop(string, number, index, char_stash, juntehai, fuuro, hai_in_mentsu_stash, in_mentsu) ==
    IF index > Len(string) THEN
        IF char_stash # <<>> THEN [ok |-> FALSE, tehai |-> None]
        ELSE TehaiFinish(juntehai, fuuro)
    ELSE IF string[index] \in TypeChars THEN
        IF ~handle_char_stash(string[index], number, char_stash).ok
        THEN [ok |-> FALSE, tehai |-> None]
        ELSE IF in_mentsu
        THEN TehaiNewLoop(string, number, index + 1, <<>>, juntehai, fuuro,
                 hai_in_mentsu_stash
                     \o handle_char_stash(string[index], number, char_stash).hai,
                 in_mentsu)
        ELSE TehaiNewLoop(string, number, index + 1, <<>>,
                 juntehai \o handle_char_stash(string[index], number, char_stash).hai,
                 fuuro, hai_in_mentsu_stash, in_mentsu)
    ELSE IF string[index] \in DigitChars THEN
        TehaiNewLoop(string, number, index + 1, Append(char_stash, string[index]),
                     juntehai, fuuro, hai_in_mentsu_stash, in_mentsu)
    ELSE IF string[index] = "[" THEN
        IF in_mentsu \/ char_stash # <<>> THEN [ok |-> FALSE, tehai |-> None]
        ELSE TehaiNewLoop(string, number, index + 1, char_stash, juntehai, fuuro,
                          hai_in_mentsu_stash, TRUE)
    ELSE IF string[index] = "]" THEN
        IF ~in_mentsu \/ char_stash # <<>> THEN [ok |-> FALSE, tehai |-> None]
        ELSE IF MentsuNew(hai_in_mentsu_stash, number) = None
        THEN [ok |-> FALSE, tehai |-> None]
        ELSE TehaiNewLoop(string, number, index + 1, char_stash, juntehai,
                 Append(fuuro, MentsuNew(hai_in_mentsu_stash, number)[1]),
                 <<>>, FALSE)
    ELSE IF string[index] = " " THEN
        TehaiNewLoop(string, number, index + 1, char_stash, juntehai, fuuro,
                     hai_in_mentsu_stash, in_mentsu)
    ELSE [ok |-> FALSE, tehai |-> None]

\* Tehai::new
TehaiNew(string, number) ==
    TehaiNewLoop(string, number, 1, <<>>, <<>>, <<>>, <<>>, FALSE)

\* String::remove(0), n times
DropFront(string, n) == SubSeq(string, n + 1, Len(string))

\* what Command::parse returns: an error, or a command
ParseErr == [ok |-> FALSE, command |-> None]
GameOperation(op) == [ok |-> TRUE, command |-> Some([type |-> "GameOperation", op |-> op])]
TehaiInput(t) == [ok |-> TRUE, command |-> Some([type |-> "TehaiInput", tehai |-> t])]

\* the '>' arm of parse_with_argument on the tiles of its argument
ParseNaku(hai_vec, haiyama_sensitive, number) ==
    IF Len(hai_vec) = 3 THEN
        IF MentsuNew(hai_vec, number) = None THEN ParseErr
        ELSE IF MentsuNew(hai_vec, number)[1].kind = "Juntsu"
        THEN GameOperation(OpChii(MentsuNew(hai_vec, number)[1], hai_vec[3],
                                  haiyama_sensitive))
        ELSE IF MentsuNew(hai_vec, number)[1].kind = "Koutsu"
        THEN GameOperation(OpPon(MentsuNew(hai_vec, number)[1], haiyama_sensitive))
        ELSE ParseErr
    ELSE IF Len(hai_vec) = 4 THEN
        IF hai_vec[1] = hai_vec[2] /\ hai_vec[1] = hai_vec[3] /\ hai_vec[1] = hai_vec[4]
        THEN GameOperation(OpKan("Unknown", Kantsu(hai_vec[1]), None, haiyama_sensitive))
        ELSE ParseErr
    ELSE IF Len(hai_vec) = 5 THEN
        IF /\ Sort(hai_vec)[1] = Sort(hai_vec)[2]
           /\ Sort(hai_vec)[1] = Sort(hai_vec)[3]
           /\ Sort(hai_vec)[1] = Sort(hai_vec)[4]
           /\ Sort(hai_vec)[1] # Sort(hai_vec)[5]
        THEN GameOperation(OpKan("Unknown", Kantsu(Sort(hai_vec)[1]),
                                 Some(Sort(hai_vec)[5]), haiyama_sensitive))
        ELSE IF /\ Sort(hai_vec)[5] = Sort(hai_vec)[2]
                /\ Sort(hai_vec)[5] = Sort(hai_vec)[3]
                /\ Sort(hai_vec)[5] = Sort(hai_vec)[4]
                /\ Sort(hai_vec)[5] # Sort(hai_vec)[1]
        THEN GameOperation(OpKan("Unknown", Kantsu(Sort(hai_vec)[5]),
                                 Some(Sort(hai_vec)[1]), haiyama_sensitive))
        ELSE ParseErr
    ELSE ParseErr

\* an arm of parse_with_argument on the argument left after the prefix
ParseArgument(arm, argument, haiyama_sensitive, number) ==
    IF ~from_string_unordered(argument, number).ok THEN ParseErr
    ELSE IF arm = "+" THEN
        IF Len(from_string_unordered(argument, number).hai_vec) = 1
        THEN GameOperation(OpAdd(from_string_unordered(argument, number).hai_vec[1],
                                 haiyama_sensitive))
        ELSE ParseErr
    ELSE IF arm = "-" THEN
        IF Len(from_string_unordered(argument, number).hai_vec) = 1
        THEN GameOperation(OpDiscard(from_string_unordered(argument, number).hai_vec[1]))
        ELSE ParseErr
    ELSE IF arm = "*+" THEN
        GameOperation(OpHaiyamaAdd(from_string_unordered(argument, number).hai_vec,
                                   haiyama_sensitive))
    ELSE IF arm = "*-" THEN
        GameOperation(OpHaiyamaDiscard(from_string_unordered(argument, number).hai_vec,
                                       haiyama_sensitive))
    ELSE ParseNaku(from_string_unordered(argument, number).hai_vec,
                   haiyama_sensitive, number)

\* Command::parse_with_argument: the second character tells strict from
\* error-ignoring, the first one names the command; a line that starts with
\* none of + - * > is a hand.
parse_with_argument(command, number) ==
    IF Len(command) < 3 THEN ParseErr
    ELSE IF command[1] \in {"+", "-", ">"} THEN
        ParseArgument(command[1],
                      DropFront(command, IF command[2] # "!" THEN 1 ELSE 2),
                      command[2] # "!", number)
    ELSE IF command[1] = "*" THEN
        IF command[IF command[2] # "!" THEN 2 ELSE 3] \in {"+", "-"}
        THEN ParseArgument(
                 IF command[IF command[2] # "!" THEN 2 ELSE 3] = "+" THEN "*+" ELSE "*-",
                 DropFront(command, IF command[2] # "!" THEN 2 ELSE 3),
                 command[2] # "!", number)
        ELSE ParseErr
    ELSE IF TehaiNew(command, number).ok
    THEN TehaiInput(TehaiNew(command, number).tehai[1])
    ELSE ParseErr

(***************************************************************************)
(* Analysis (tehai.rs).  A Decomposer splits juntehai into melds, pairs    *)
(* (Toitsu, a tile), partials (Taatsu, a pair of tiles) and single tiles   *)
(* (Ukihai, a tile); a MachiCondition holds, for one tile to discard, the  *)
(* map machihai from the tiles waited for to their remaining number.       *)
(***************************************************************************)
Taatsu(a, b) == <<a, b>>

\* Decomposer::new
DecomposerNew ==
    [mentsu_vec |-> <<>>, toitsu_vec |-> <<>>, taatsu_vec |-> <<>>,
     valid_ukihai_vec |-> <<>>, invalid_ukihai_vec |-> <<>>,
     hourakei |-> "Mentsute"]

\* the elements of a vec
Range(vec) == {vec[k] : k \in 1..Len(vec)}

\* BTreeMap::insert(hai, 4) for every tile of a set
InsertAll(machihai, hais) ==
    [hai \in DOMAIN machihai \cup hais |-> IF hai \in hais THEN 4 ELSE machihai[hai]]

\* the tiles of an Option<Hai>
OptionSet(option) == IF option = None THEN {} ELSE {option[1]}

\* The tiles one taatsu makes MachiCondition::handle_taatsu insert: the tile in
\* the gap, or the tiles the arm of the suit computes for neighbouring numbers.
TaatsuMachi(taatsu, number) ==
    IF HaiNum(taatsu[2]) - HaiNum(taatsu[1]) = 2 THEN {taatsu[1] + 1}
    ELSE IF HaiNum(taatsu[2]) - HaiNum(taatsu[1]) = 1 THEN
        IF HaiSuit(taatsu[1]) = 1
        THEN OptionSet(previous(taatsu[1], number, FALSE))
                 \cup OptionSet(previous(taatsu[2], number, FALSE))
        ELSE OptionSet(previous(taatsu[1], number, FALSE))
                 \cup OptionSet(next(taatsu[2], number, FALSE))
    ELSE {}

\* MachiCondition::handle_taatsu; its error arm needs a taatsu of two suits or
\* of honors, which Tehai::split never builds.
handle_taatsu(machihai, decomposer, number) ==
    InsertAll(machihai,
              UNION {TaatsuMachi(taatsu, number) : taatsu \in Range(decomposer.taatsu_vec)})

\* remove_once: the vec without the first element equal to item
remove_once(container, item) ==
    IF FirstIndex(container, item) = 0 THEN container
    ELSE RemoveAt(container, FirstIndex(container, item))

RECURSIVE RemoveEach(_, _)
RemoveEach(container, items) ==
    IF items = <<>> THEN container
    ELSE RemoveEach(remove_once(container, Head(items)), Tail(items))

\* The ways Tehai::split consumes the first tile of juntehai (two tiles at
\* least): as a pair, a triplet, a partial with the next number and then a run,
\* a partial with a gap when the next number is missing, and as a single tile.
SplitBranches(juntehai, number) ==
    (IF juntehai[1] = juntehai[2]
     THEN {[kind |-> "toitsu", hai |-> <<juntehai[1], juntehai[1]>>]} ELSE {})
    \cup
    (IF Len(juntehai) >= 3 /\ juntehai[1] = juntehai[2] /\ juntehai[1] = juntehai[3]
     THEN {[kind |-> "koutsu", hai |-> <<juntehai[1], juntehai[1], juntehai[1]>>]}
     ELSE {})
    \cup
    (IF HaiSuit(juntehai[1]) # 3 /\ next(juntehai[1], number, FALSE) # None
     THEN IF next(juntehai[1], number, FALSE)[1] \in Range(juntehai)
          THEN {[kind |-> "taatsu",
                 hai |-> <<juntehai[1], next(juntehai[1], number, FALSE)[1]>>]}
               \cup
               {[kind |-> "juntsu",
                 hai |-> <<juntehai[1], next(juntehai[1], number, FALSE)[1], hai>>] :
                    hai \in {t \in Range(juntehai) :
                                next(next(juntehai[1], number, FALSE)[1], number, FALSE)
                                    = Some(t)}}
          ELSE {[kind |-> "taatsu", hai |-> <<juntehai[1], hai>>] :
                    hai \in {t \in Range(juntehai) :
                                next(next(juntehai[1], number, FALSE)[1], number, FALSE)
                                    = Some(t)}}
     ELSE {})
    \cup {[kind |-> "ukihai", hai |-> <<juntehai[1]>>]}

\* the decomposer after handle_toitsu, handle_koutsu, handle_taatsu,
\* handle_juntsu or handle_ukihai of Tehai::split has pushed the branch
PushBranch(decomposer, branch) ==
    CASE branch.kind = "toitsu" ->
            [decomposer EXCEPT !.toitsu_vec = Append(@, branch.hai[1])]
      [] branch.kind = "koutsu" ->
            [decomposer EXCEPT !.mentsu_vec = Append(@, Koutsu(branch.hai[1]))]
      [] branch.kind = "taatsu" ->
            [decomposer EXCEPT !.taatsu_vec = Append(@, Taatsu(branch.hai[1], branch.hai[2]))]
      [] branch.kind = "juntsu" ->
            [decomposer EXCEPT
                !.mentsu_vec = Append(@, Juntsu(branch.hai[1], branch.hai[2], branch.hai[3]))]
      [] branch.kind = "ukihai" ->
            [decomposer EXCEPT !.invalid_ukihai_vec = Append(@, branch.hai[1])]

\* Tehai::split: every decomposer the recursion pushes to decomposers_vec, as
\* the set decompose makes of them.
RECURSIVE split(_, _, _)
split(juntehai, decomposer, number) ==
    IF Len(juntehai) = 0 THEN {decomposer}
    ELSE IF Len(juntehai) = 1
    THEN {[decomposer EXCEPT !.invalid_ukihai_vec = Append(@, juntehai[1])]}
    ELSE UNION {split(RemoveEach(juntehai, branch.hai), PushBranch(decomposer, branch),
                      number) :
                  branch \in SplitBranches(juntehai, number)}

Min(a, b) == IF a <= b THEN a ELSE b

\* Decomposer::shanten
shanten(decomposer, juntehai_number) ==
    IF decomposer.hourakei = "Mentsute" THEN
        IF Cardinality(Range(decomposer.toitsu_vec)) # Len(decomposer.toitsu_vec)
        THEN 13
        ELSE ((juntehai_number \div 3) * 2)
                 - 2 * Len(decomposer.mentsu_vec)
                 - Min(((juntehai_number + 1) \div 3) - Len(decomposer.mentsu_vec)
                           - Min(((juntehai_number + 1) \div 3) - 1
                                     - Len(decomposer.mentsu_vec),
                                 Len(decomposer.taatsu_vec)),
                       Len(decomposer.toitsu_vec))
                 - Min(((juntehai_number + 1) \div 3) - 1 - Len(decomposer.mentsu_vec),
                       Len(decomposer.taatsu_vec))
    ELSE IF decomposer.hourakei = "Chiitoitsu" THEN
        13 - 2 * Len(decomposer.toitsu_vec)
           - Min(Len(decomposer.valid_ukihai_vec), 7 - Len(decomposer.toitsu_vec))
    ELSE 13 - Len(decomposer.valid_ukihai_vec)

\* The Chiitoitsu loop of Tehai::decompose from the tile at index on: the second
\* copy of a tile makes a toitsu, further copies are invalid ukihai, a tile
\* without a second copy is a valid ukihai.
RECURSIVE ChiitoitsuLoop(_, _, _, _, _)
ChiitoitsuLoop(juntehai, index, last_hai, last_hai_used, decomposer) ==
    IF index > Len(juntehai) THEN
        IF ~last_hai_used
        THEN [decomposer EXCEPT !.valid_ukihai_vec = Append(@, last_hai)]
        ELSE decomposer
    ELSE IF juntehai[index] = last_hai THEN
        IF ~last_hai_used
        THEN ChiitoitsuLoop(juntehai, index + 1, last_hai, TRUE,
                 [decomposer EXCEPT !.toitsu_vec = Append(@, juntehai[index])])
        ELSE ChiitoitsuLoop(juntehai, index + 1, last_hai, last_hai_used,
                 [decomposer EXCEPT !.invalid_ukihai_vec = Append(@, juntehai[index])])
    ELSE IF ~last_hai_used
    THEN ChiitoitsuLoop(juntehai, index + 1, juntehai[index], FALSE,
             [decomposer EXCEPT !.valid_ukihai_vec = Append(@, last_hai)])
    ELSE ChiitoitsuLoop(juntehai, index + 1, juntehai[index], FALSE, decomposer)

\* Hai::yaochuupai_type, in the order of the BTreeSet
yaochuupai_type ==
    <<Manzu(1), Manzu(9), Pinzu(1), Pinzu(9), Souzu(1), Souzu(9),
      Jihai(1), Jihai(2), Jihai(3), Jihai(4), Jihai(5), Jihai(6), Jihai(7)>>

\* A thirteen-orphans loop that counts no second copy.
KokushimusouLoopNoPair(juntehai, yaochuupai_index, index, yaochuupai_iter_changed, toitsu_included, decomposer) ==
    [decomposer EXCEPT
        !.valid_ukihai_vec =
            SelectSeq(yaochuupai_type, LAMBDA hai : hai \in Range(juntehai)),
        !.invalid_ukihai_vec =
            SelectSeq(juntehai, LAMBDA hai : hai \notin Range(yaochuupai_type))]

\* The Kokushimusou loop of Tehai::decompose: the first copy of a yaochuupai is
\* a valid ukihai, one second copy too, everything else is invalid.
RECURSIVE KokushimusouLoop(_, _, _, _, _, _)
KokushimusouLoop(juntehai, yaochuupai_index, index, yaochuupai_iter_changed, toitsu_included, decomposer) ==
    IF yaochuupai_index > Len(yaochuupai_type) \/ index > Len(juntehai) THEN decomposer
    ELSE IF yaochuupai_type[yaochuupai_index] < juntehai[index] THEN
        KokushimusouLoop(juntehai, yaochuupai_index + 1, index, TRUE,
                         toitsu_included, decomposer)
    ELSE IF yaochuupai_type[yaochuupai_index] > juntehai[index] THEN
        KokushimusouLoop(juntehai, yaochuupai_index, index + 1,
                         yaochuupai_iter_changed, toitsu_included,
                         [decomposer EXCEPT
                             !.invalid_ukihai_vec = Append(@, juntehai[index])])
    ELSE IF yaochuupai_iter_changed THEN
        KokushimusouLoop(juntehai, yaochuupai_index, index + 1, FALSE,
                         toitsu_included,
                         [decomposer EXCEPT
                             !.valid_ukihai_vec = Append(@, juntehai[index])])
    ELSE IF ~toitsu_included THEN
        KokushimusouLoop(juntehai, yaochuupai_index, index + 1, FALSE, TRUE,
                         [decomposer EXCEPT
                             !.valid_ukihai_vec = Append(@, juntehai[index])])
    ELSE
        KokushimusouLoop(juntehai, yaochuupai_index, index + 1, FALSE,
                         toitsu_included,
                         [decomposer EXCEPT
                             !.invalid_ukihai_vec = Append(@, juntehai[index])])

\* The decomposers Tehai::decompose hands to push_into_decomposers: those of
\* split as Mentsute and, for 14 tiles without melds, the Chiitoitsu and the
\* Kokushimusou one.
Decomposers(t, number) ==
    split(t.juntehai, DecomposerNew, number)
    \cup
    (IF Len(t.juntehai) # 14 \/ Len(t.fuuro) # 0 THEN {}
     ELSE {ChiitoitsuLoop(t.juntehai, 2, t.juntehai[1], FALSE,
                          [DecomposerNew EXCEPT !.hourakei = "Chiitoitsu"]),
           KokushimusouLoop(t.juntehai, 1, 1, TRUE, FALSE,
                            [DecomposerNew EXCEPT !.hourakei = "Kokushimusou"])})

\* min_shanten of Tehai::decompose: it starts at (len / 3) * 2 and falls to the
\* shanten of every decomposer pushed
MinShanten(decomposers, juntehai_number) ==
    CHOOSE m \in {(juntehai_number \div 3) * 2}
                 \cup {shanten(d, juntehai_number) : d \in decomposers} :
        /\ m <= (juntehai_number \div 3) * 2
        /\ \A d \in decomposers : m <= shanten(d, juntehai_number)

\* what Tehai::decompose returns for the decomposers pushed
DecomposeResult(decomposers, juntehai_number) ==
    [ok |-> TRUE,
     shanten |-> MinShanten(decomposers, juntehai_number),
     decomposers |-> {d \in decomposers :
                         shanten(d, juntehai_number)
                             = MinShanten(decomposers, juntehai_number)}]

\* Tehai::decompose; only hands of 3k+2 tiles are decomposed
decompose(t, number) ==
    IF Len(t.juntehai) % 3 # 2
    THEN [ok |-> FALSE, shanten |-> 0, decomposers |-> {}]
    ELSE DecomposeResult(Decomposers(t, number), Len(t.juntehai))

\* MachiCondition::new
MachiConditionNew(sutehai) == [sutehai |-> sutehai, machihai |-> <<>>, furiten |-> FALSE]

\* MachiCondition::nokori
RECURSIVE SumOver(_, _)
SumOver(machihai, hais) ==
    IF hais = {} THEN 0
    ELSE machihai[CHOOSE hai \in hais : TRUE]
             + SumOver(machihai, hais \ {CHOOSE hai \in hais : TRUE})
nokori(condition) == SumOver(condition.machihai, DOMAIN condition.machihai)

\* The tiles an ukihai that can still become a taatsu makes handle_mentsute
\* insert: its previous and the previous of that, its next and the next of that.
UkihaiNeighbours(hai, number) ==
    OptionSet(previous(hai, number, FALSE))
    \cup (IF previous(hai, number, FALSE) = None THEN {}
          ELSE OptionSet(previous(previous(hai, number, FALSE)[1], number, FALSE)))
    \cup OptionSet(next(hai, number, FALSE))
    \cup (IF next(hai, number, FALSE) = None THEN {}
          ELSE OptionSet(next(next(hai, number, FALSE)[1], number, FALSE)))

\* The tiles the last part of handle_mentsute inserts when the decomposer has
\* room for another group: the pairs, every invalid ukihai but the tile to
\* discard, and the neighbours of the suited ones while a taatsu still fits.
MentsuteGrow(decomposer, sutehai, number, max_mentsu_toitsu_taatsu) ==
    Range(decomposer.toitsu_vec)
    \cup (Range(decomposer.invalid_ukihai_vec) \ {sutehai})
    \cup (IF Len(decomposer.mentsu_vec) + Len(decomposer.taatsu_vec)
                 < max_mentsu_toitsu_taatsu - 1
          THEN UNION {UkihaiNeighbours(hai, number) :
                        hai \in {u \in Range(decomposer.invalid_ukihai_vec) \ {sutehai} :
                                    HaiSuit(u) # 3}}
          ELSE {})

\* MachiCondition::handle_mentsute
handle_mentsute(machihai, decomposer, sutehai, number, juntehai_number) ==
    IF Len(decomposer.mentsu_vec) + Len(decomposer.taatsu_vec)
           > ((juntehai_number + 1) \div 3) - 1
    THEN machihai
    ELSE IF Len(decomposer.mentsu_vec) + Len(decomposer.taatsu_vec)
                + Len(decomposer.toitsu_vec) > (juntehai_number + 1) \div 3
    THEN machihai
    ELSE InsertAll(
             InsertAll(handle_taatsu(machihai, decomposer, number),
                       IF Len(decomposer.toitsu_vec) > 1
                       THEN Range(decomposer.toitsu_vec) ELSE {}),
             IF Len(decomposer.mentsu_vec) + Len(decomposer.taatsu_vec)
                    + Len(decomposer.toitsu_vec) < (juntehai_number + 1) \div 3
             THEN MentsuteGrow(decomposer, sutehai, number, (juntehai_number + 1) \div 3)
             ELSE {})

\* MachiCondition::handle_chiitoitsu
handle_chiitoitsu(machihai, decomposer, sutehai, number) ==
    IF Len(decomposer.toitsu_vec) + Len(decomposer.valid_ukihai_vec) >= 7
    THEN InsertAll(machihai, Range(decomposer.valid_ukihai_vec) \ {sutehai})
    ELSE InsertAll(machihai, all_type(number) \ Range(decomposer.toitsu_vec))

\* The loop of handle_kokushimusou that finds the yaochuupai missing from
\* valid_ukihai_vec; the yaochuupai after the one the loop stops at are
\* inserted after it.
RECURSIVE MissingYaochuupaiLoop(_, _, _, _, _)
MissingYaochuupaiLoop(machihai, valid_ukihai_vec, yaochuupai_index, index, yaochuupai_used) ==
    IF yaochuupai_index > Len(yaochuupai_type) \/ index > Len(valid_ukihai_vec)
    THEN InsertAll(machihai,
                   {yaochuupai_type[k] :
                       k \in (yaochuupai_index + 1)..Len(yaochuupai_type)})
    ELSE IF yaochuupai_type[yaochuupai_index] < valid_ukihai_vec[index] THEN
        MissingYaochuupaiLoop(
            IF ~yaochuupai_used
            THEN InsertAll(machihai, {yaochuupai_type[yaochuupai_index]})
            ELSE machihai,
            valid_ukihai_vec, yaochuupai_index + 1, index, FALSE)
    ELSE IF yaochuupai_type[yaochuupai_index] > valid_ukihai_vec[index] THEN
        MissingYaochuupaiLoop(machihai, valid_ukihai_vec, yaochuupai_index,
                              index + 1, yaochuupai_used)
    ELSE MissingYaochuupaiLoop(machihai, valid_ukihai_vec, yaochuupai_index,
                               index + 1, TRUE)

\* MachiCondition::handle_kokushimusou; there is a pair when two neighbours of
\* valid_ukihai_vec are equal
handle_kokushimusou(machihai, decomposer) ==
    IF ~\E k \in 1..(Len(decomposer.valid_ukihai_vec) - 1) :
            decomposer.valid_ukihai_vec[k] = decomposer.valid_ukihai_vec[k + 1]
    THEN InsertAll(machihai, Range(yaochuupai_type))
    ELSE MissingYaochuupaiLoop(machihai, decomposer.valid_ukihai_vec, 1, 1, FALSE)

\* MachiCondition::handle: a decomposer counts for the tile to discard when the
\* tile is one of its invalid ukihai, or one of the valid ukihai of a Chiitoitsu
\* decomposer.  The error of a decomposer with a shanten below 0 does not
\* arise: analyze returns before for a shanten of -1.
handle(condition, decomposer, juntehai_number, number) ==
    IF /\ condition.sutehai \notin Range(decomposer.invalid_ukihai_vec)
       /\ ~(/\ decomposer.hourakei = "Chiitoitsu"
            /\ condition.sutehai \in Range(decomposer.valid_ukihai_vec))
    THEN condition
    ELSE IF decomposer.hourakei = "Mentsute"
    THEN [condition EXCEPT
             !.machihai = handle_mentsute(@, decomposer, condition.sutehai, number,
                                          juntehai_number)]
    ELSE IF decomposer.hourakei = "Chiitoitsu"
    THEN [condition EXCEPT
             !.machihai = handle_chiitoitsu(@, decomposer, condition.sutehai, number)]
    ELSE [condition EXCEPT !.machihai = handle_kokushimusou(@, decomposer)]

\* the loop of analyze over the decomposers, for one tile to discard
RECURSIVE HandleEach(_, _, _, _)
HandleEach(condition, decomposers, juntehai_number, number) ==
    IF decomposers = {} THEN condition
    ELSE HandleEach(handle(condition, CHOOSE d \in decomposers : TRUE,
                           juntehai_number, number),
                    decomposers \ {CHOOSE d \in decomposers : TRUE},
                    juntehai_number, number)

\* MachiCondition::finally.  With a game manager a wait is furiten when it is
\* among the discarded tiles, takes its number from the haiyama and is removed
\* at 0; without one the number is 4 less the copies in the hand, and a tile
\* the hand holds four times is removed.
finally(condition, t, game_manager) ==
    IF game_manager # None
    THEN [condition EXCEPT
             !.furiten = DOMAIN condition.machihai \cap game_manager[1].sutehai_type # {},
             !.machihai = [hai \in {k \in DOMAIN condition.machihai :
                                       game_manager[1].haiyama[k] # 0} |->
                              game_manager[1].haiyama[hai]]]
    ELSE [condition EXCEPT
             !.machihai = [hai \in {k \in DOMAIN condition.machihai :
                                       HaiNumber(t, k) < 4} |->
                              4 - HaiNumber(t, hai)]]

\* the tiles analyze considers discarding
SutehaiSet(decomposers) ==
    UNION {Range(d.invalid_ukihai_vec)
               \cup (IF d.hourakei = "Chiitoitsu" /\ d.invalid_ukihai_vec = <<>>
                     THEN Range(d.valid_ukihai_vec) ELSE {}) :
           d \in decomposers}

\* A comparator that orders by the tile to discard alone.
ConditionBeforeBySutehai(lhs, rhs) == lhs.sutehai < rhs.sutehai

\* the comparator of the sort_by of analyze: more remaining tiles first, then
\* the lower tile to discard
ConditionBefore(lhs, rhs) ==
    IF nokori(lhs) = nokori(rhs) THEN lhs.sutehai < rhs.sutehai
    ELSE nokori(lhs) > nokori(rhs)

\* Vec::sort_by of the conditions
RECURSIVE InsertCondition(_, _)
InsertCondition(conditions_vec, condition) ==
    IF conditions_vec = <<>> THEN <<condition>>
    ELSE IF ConditionBefore(condition, Head(conditions_vec))
    THEN <<condition>> \o conditions_vec
    ELSE <<Head(conditions_vec)>> \o InsertCondition(Tail(conditions_vec), condition)

RECURSIVE SortConditions(_)
SortConditions(conditions_vec) ==
    IF conditions_vec = <<>> THEN <<>>
    ELSE InsertCondition(SortConditions(Tail(conditions_vec)), Head(conditions_vec))

\* conditions_vec as the loop over sutehai_set fills it; a HashSet has no
\* order, the conditions come with the tiles ascending or descending
RECURSIVE ConditionsOf(_, _, _, _, _, _)
ConditionsOf(sutehai_set, descending, decomposers, t, number, game_manager) ==
    IF sutehai_set = {} THEN <<>>
    ELSE <<finally(HandleEach(
                       MachiConditionNew(
                           CHOOSE s \in sutehai_set :
                               \A o \in sutehai_set :
                                   IF descending THEN o <= s ELSE s <= o),
                       decomposers, Len(t.juntehai), number),
                   t, game_manager)>>
         \o ConditionsOf(sutehai_set \ {CHOOSE s \in sutehai_set :
                                           \A o \in sutehai_set :
                                               IF descending THEN o <= s ELSE s <= o},
                         descending, decomposers, t, number, game_manager)

\* Tehai::analyze for what decompose returned
AnalyzeResult(decomposed, descending, t, number, game_manager) ==
    IF ~decomposed.ok THEN [ok |-> FALSE, shanten |-> 0, conditions |-> <<>>]
    ELSE IF decomposed.shanten = -1
    THEN [ok |-> TRUE, shanten |-> -1, conditions |-> <<>>]
    ELSE [ok |-> TRUE, shanten |-> decomposed.shanten,
          conditions |->
              SortConditions(
                  SelectSeq(ConditionsOf(SutehaiSet(decomposed.decomposers), descending,
                                         decomposed.decomposers, t, number, game_manager),
                            LAMBDA condition : nokori(condition) > 0))]

\* Tehai::analyze; game_manager is an Option
analyze(t, number, game_manager, descending) ==
    AnalyzeResult(decompose(t, number), descending, t, number, game_manager)

(***************************************************************************)
(* GameManager.  A game value g holds haiyama, tehai (an Option),          *)
(* sutehai_type, state and history.  Each handler returns ok, the game as  *)
(* the handler leaves it, and the operation as it may have rewritten it.   *)
(***************************************************************************)
Game(h, t, su, st, hist) ==
    [haiyama |-> h, tehai |-> t, sutehai_type |-> su, state |-> st, history |-> hist]

\* GameManager::new
GameNew == Game(HaiyamaNew, None, {}, "WaitToInit", <<>>)

\* GameManager::reinitialize: a new GameManager for the player number, whose
\* wall Haiyama::new fills with every valid tile of that number.
reinitialize(number) ==
    Game([hai \in all_type(number) |-> HaiLimit], None, {}, "WaitToInit", <<>>)

\* Results.  err tells the fall-through arm "Unsupported opretion ... at state
\* ..." of the operate_* handlers from every other error.
Ok(g, op) == [ok |-> TRUE, g |-> g, op |-> op, err |-> "Ok"]
Err(g, op) == [ok |-> FALSE, g |-> g, op |-> op, err |-> "Error"]
Unsupported(g, op) == [ok |-> FALSE, g |-> g, op |-> op, err |-> "Unsupported"]

\* The Haiyama arms shared by the four operate_* handlers: the batch is applied
\* with auto_restore = haiyama_sensitive and its error is dropped when not
\* sensitive.
OperateHaiyama(g, op) ==
    LET r == IF op.type = "HaiyamaAdd"
             THEN add_with_vec(g.haiyama, op.hai_vec, op.haiyama_sensitive)
             ELSE discard_with_vec(g.haiyama, op.hai_vec, op.haiyama_sensitive)
        g1 == [g EXCEPT !.haiyama = r.map]
    IN IF ~r.ok /\ op.haiyama_sensitive THEN Err(g1, op) ELSE Ok(g1, op)

\* operate_tehai_init
operate_tehai_init(g, op) ==
    LET t == op.tehai
    IN IF Len(t.fuuro) # 0 THEN Err(g, op)
       ELSE IF Len(t.juntehai) \notin {13, 14} THEN Err(g, op)
       ELSE
       LET g1 == [g EXCEPT !.state = IF Len(t.juntehai) = 13 THEN "LackOneHai"
                                                             ELSE "FullHai"]
           r == discard_with_vec(g1.haiyama, t.juntehai, TRUE)
       IN IF ~r.ok
          THEN Err([g1 EXCEPT !.haiyama = r.map, !.state = "WaitToInit"], op)
          ELSE Ok([g1 EXCEPT !.haiyama = r.map, !.tehai = Some(t)], op)

\* GameManager::operate_wait_to_init
operate_wait_to_init(g, op) ==
    IF op.type = "Initialize" THEN operate_tehai_init(g, op)
    ELSE IF op.type \in {"HaiyamaAdd", "HaiyamaDiscard"} THEN OperateHaiyama(g, op)
    ELSE Unsupported(g, op)

\* The Add arm leaving the haiyama as it is.
OperateAddKeepHaiyama(g, op) ==
    LET r == HaiyamaDiscard(g.haiyama, op.hai)
    IN IF ~r.ok /\ op.haiyama_sensitive THEN Err(g, op)
       ELSE Ok([g EXCEPT !.tehai = Some([g.tehai[1] EXCEPT !.juntehai =
                                         Sort(Append(g.tehai[1].juntehai, op.hai))]),
                         !.state = "FullHai"], op)

\* The Add arm of operate_lack_one_hai and of operate_wait_for_rinshanhai.
OperateAdd(g, op) ==
    LET r == HaiyamaDiscard(g.haiyama, op.hai)
    IN IF ~r.ok /\ op.haiyama_sensitive THEN Err(g, op)
       ELSE Ok([g EXCEPT !.haiyama = r.map,
                         !.tehai = Some([g.tehai[1] EXCEPT !.juntehai =
                                         Sort(Append(g.tehai[1].juntehai, op.hai))]),
                         !.state = "FullHai"], op)

\* The Discard arm of operate_full_hai.
OperateDiscard(g, op) ==
    LET r == TehaiDiscard(g.tehai[1], op.hai)
    IN IF ~r.ok THEN Err(g, op)
       ELSE Ok([g EXCEPT !.tehai = Some(r.tehai), !.state = "LackOneHai"], op)

\* The end of both Kan arms, on the result k of Tehai::kan: g is the game as
\* it was backed up, g1 the game with the haiyama and the state already set, and
\* kinds the kinds the arm accepts.
KanOutcome(g, g1, op, k, kinds) ==
    IF k.ok
    THEN IF k.kan \in kinds
         THEN Ok([g1 EXCEPT !.tehai = Some(k.tehai)],
                 OpKan(k.kan, op.kantsu, op.rinshanhai, op.haiyama_sensitive))
         ELSE Err([g1 EXCEPT !.haiyama = g.haiyama, !.state = g.state,
                             !.tehai = g.tehai], op)
    ELSE Err([g1 EXCEPT !.haiyama = g.haiyama, !.state = g.state,
                        !.tehai = Some(k.tehai)], op)

\* The Kan arms setting FullHai whether or not a replacement tile is named.
KanStateAlwaysFull(op) == "FullHai"

\* The state a Kan arm sets before it calls Tehai::kan.
KanState(op) == IF op.rinshanhai # None THEN "FullHai" ELSE "WaitForRinshanhai"

\* The Kan arm of operate_full_hai.
OperateFullKan(g, op) ==
    LET d == IF op.rinshanhai # None
             THEN HaiyamaDiscard(g.haiyama, op.rinshanhai[1])
             ELSE [ok |-> TRUE, map |-> g.haiyama]
    IN IF ~d.ok /\ op.haiyama_sensitive THEN Err(g, op)
       ELSE KanOutcome(g, [g EXCEPT !.haiyama = d.map, !.state = KanState(op)], op,
                       kan(g.tehai[1], op.kantsu, op.rinshanhai),
                       {"Ankan", "Kakan"})

\* GameManager::operate_full_hai
operate_full_hai(g, op) ==
    IF op.type = "Discard" THEN OperateDiscard(g, op)
    ELSE IF op.type = "Kan" /\ op.kan = "Unknown" THEN OperateFullKan(g, op)
    ELSE IF op.type \in {"HaiyamaAdd", "HaiyamaDiscard"} THEN OperateHaiyama(g, op)
    ELSE Unsupported(g, op)

\* The Chii arm of operate_lack_one_hai.
OperateChii(g, op) ==
    LET haiyama_backup == g.haiyama
        d == HaiyamaDiscard(g.haiyama, op.nakihai)
    IN IF ~d.ok /\ op.haiyama_sensitive THEN Err(g, op)
       ELSE LET c == chii(g.tehai[1], op.juntsu, op.nakihai)
            IN IF ~c.ok
               THEN Err([g EXCEPT !.haiyama = haiyama_backup,
                                  !.tehai = Some(c.tehai)], op)
               ELSE Ok([g EXCEPT !.haiyama = d.map, !.tehai = Some(c.tehai),
                                 !.state = "FullHai"], op)

\* The Pon arm of operate_lack_one_hai.
OperatePon(g, op) ==
    LET haiyama_backup == g.haiyama
        d == HaiyamaDiscard(g.haiyama, op.koutsu.hai)
    IN IF ~d.ok /\ op.haiyama_sensitive THEN Err(g, op)
       ELSE LET c == pon(g.tehai[1], op.koutsu)
            IN IF ~c.ok
               THEN Err([g EXCEPT !.haiyama = haiyama_backup,
                                  !.tehai = Some(c.tehai)], op)
               ELSE Ok([g EXCEPT !.haiyama = d.map, !.tehai = Some(c.tehai),
                                 !.state = "FullHai"], op)

\* The Kan arm of operate_lack_one_hai.
OperateLackKan(g, op) ==
    LET haiyama_backup == g.haiyama
        d1 == HaiyamaDiscard(g.haiyama, op.kantsu.hai)
    IN IF ~d1.ok /\ op.haiyama_sensitive THEN Err(g, op)
       ELSE
       LET d2 == IF op.rinshanhai # None
                 THEN HaiyamaDiscard(d1.map, op.rinshanhai[1])
                 ELSE [ok |-> TRUE, map |-> d1.map]
       IN IF ~d2.ok /\ op.haiyama_sensitive
          THEN Err([g EXCEPT !.haiyama = haiyama_backup], op)
          ELSE KanOutcome(g, [g EXCEPT !.haiyama = d2.map, !.state = KanState(op)],
                          op, kan(g.tehai[1], op.kantsu, op.rinshanhai),
                          {"Daiminkan"})

\* GameManager::operate_lack_one_hai
operate_lack_one_hai(g, op) ==
    IF op.type = "Add" THEN OperateAdd(g, op)
    ELSE IF op.type = "Chii" THEN OperateChii(g, op)
    ELSE IF op.type = "Pon" /\ op.koutsu.kind = "Koutsu" THEN OperatePon(g, op)
    ELSE IF op.type = "Kan" /\ op.kan = "Unknown" /\ op.kantsu.kind = "Kantsu"
    THEN OperateLackKan(g, op)
    ELSE IF op.type \in {"HaiyamaAdd", "HaiyamaDiscard"} THEN OperateHaiyama(g, op)
    ELSE Unsupported(g, op)

\* operate_wait_for_rinshanhai with a Discard arm.
operate_wait_for_rinshanhai_discard(g, op) ==
    IF op.type = "Add" THEN OperateAdd(g, op)
    ELSE IF op.type = "Discard" THEN OperateDiscard(g, op)
    ELSE IF op.type \in {"HaiyamaAdd", "HaiyamaDiscard"} THEN OperateHaiyama(g, op)
    ELSE Unsupported(g, op)

\* GameManager::operate_wait_for_rinshanhai
operate_wait_for_rinshanhai(g, op) ==
    IF op.type = "Add" THEN OperateAdd(g, op)
    ELSE IF op.type \in {"HaiyamaAdd", "HaiyamaDiscard"} THEN OperateHaiyama(g, op)
    ELSE Unsupported(g, op)

\* The push of GameManager::operate recording the state the handler has set.
PushHistoryStateAfter(last_state, r) ==
    IF ~r.ok THEN r
    ELSE Ok([r.g EXCEPT !.history =
                 Append(r.g.history,
                        [op |-> r.op, state |-> r.g.state,
                         sutehai_type |-> r.g.sutehai_type])],
            r.op)

\* The end of GameManager::operate: (op, last_state, sutehai_type) is pushed
\* when the handler's result r is a success.
PushHistory(last_state, r) ==
    IF ~r.ok THEN r
    ELSE Ok([r.g EXCEPT !.history =
                 Append(r.g.history,
                        [op |-> r.op, state |-> last_state,
                         sutehai_type |-> r.g.sutehai_type])],
            r.op)

\* GameManager::operate: dispatch on the state, then push.
operate(g, op) ==
    PushHistory(g.state,
        IF g.state = "WaitToInit" THEN operate_wait_to_init(g, op)
        ELSE IF g.state = "FullHai" THEN operate_full_hai(g, op)
        ELSE IF g.state = "LackOneHai" THEN operate_lack_one_hai(g, op)
        ELSE operate_wait_for_rinshanhai(g, op))

(***************************************************************************)
(* Undo.  The back_* handlers work on the game after the pop; they return  *)
(* ok and the game as they leave it.                                       *)
(***************************************************************************)
BOk(g) == [ok |-> TRUE, g |-> g, err |-> "Ok"]
BErr(g) == [ok |-> FALSE, g |-> g, err |-> "Error"]

\* The Haiyama arms shared by the four back_* handlers: the inverse batch, with
\* auto_restore = haiyama_sensitive of the back call.
BackHaiyama(g, op, haiyama_sensitive) ==
    LET r == IF op.type = "HaiyamaAdd"
             THEN discard_with_vec(g.haiyama, op.hai_vec, haiyama_sensitive)
             ELSE add_with_vec(g.haiyama, op.hai_vec, haiyama_sensitive)
        g1 == [g EXCEPT !.haiyama = r.map]
    IN IF ~r.ok /\ haiyama_sensitive THEN BErr(g1) ELSE BOk(g1)

\* GameManager::back_wait_to_init
back_wait_to_init(g, op, haiyama_sensitive) ==
    IF op.type = "Initialize"
    THEN LET r == add_with_vec(g.haiyama, op.tehai.juntehai, haiyama_sensitive)
             g1 == [g EXCEPT !.haiyama = r.map]
         IN IF ~r.ok /\ haiyama_sensitive THEN BErr(g1)
            ELSE BOk([g1 EXCEPT !.tehai = None, !.state = "WaitToInit"])
    ELSE IF op.type \in {"HaiyamaAdd", "HaiyamaDiscard"}
    THEN BackHaiyama(g, op, haiyama_sensitive)
    ELSE BErr(g)

\* The Kan arm of back_full_hai and of back_lack_one_hai.
BackKan(g, op, haiyama_sensitive) ==
    LET backup == g.haiyama
        a1 == IF op.kan = "Daiminkan" /\ op.kantsu.kind = "Kantsu"
              THEN HaiyamaAdd(g.haiyama, op.kantsu.hai)
              ELSE [ok |-> TRUE, map |-> g.haiyama]
    IN IF ~a1.ok /\ haiyama_sensitive THEN BErr(g)
       ELSE IF op.kan \notin {"Daiminkan", "Kakan", "Ankan"}
       THEN BErr([g EXCEPT !.haiyama = backup])
       ELSE
       LET a2 == IF op.rinshanhai # None
                 THEN HaiyamaAdd(a1.map, op.rinshanhai[1])
                 ELSE [ok |-> TRUE, map |-> a1.map]
       IN IF ~a2.ok /\ haiyama_sensitive
          THEN BErr([g EXCEPT !.haiyama = backup])
          ELSE LET k == de_kan(g.tehai[1], op.kan, op.kantsu, op.rinshanhai)
               IN IF ~k.ok
                  THEN BErr([g EXCEPT !.haiyama = backup, !.tehai = Some(k.tehai)])
                  ELSE BOk([g EXCEPT !.haiyama = a2.map, !.tehai = Some(k.tehai)])

\* GameManager::back_full_hai
back_full_hai(g, op, haiyama_sensitive) ==
    IF op.type = "Discard"
    THEN BOk([g EXCEPT !.tehai = Some([g.tehai[1] EXCEPT !.juntehai =
                                       Sort(Append(g.tehai[1].juntehai, op.hai))])])
    ELSE IF op.type = "Kan" THEN BackKan(g, op, haiyama_sensitive)
    ELSE IF op.type \in {"HaiyamaAdd", "HaiyamaDiscard"}
    THEN BackHaiyama(g, op, haiyama_sensitive)
    ELSE BErr(g)

\* The Add arm of back_lack_one_hai and of back_wait_for_rinshanhai: the tile
\* is discarded from the hand; the haiyama is not touched.
BackAdd(g, op) ==
    LET r == TehaiDiscard(g.tehai[1], op.hai)
    IN IF ~r.ok THEN BErr(g) ELSE BOk([g EXCEPT !.tehai = Some(r.tehai)])

\* The Chii arm of back_lack_one_hai.
BackChii(g, op, haiyama_sensitive) ==
    LET backup == g.haiyama
        a == HaiyamaAdd(g.haiyama, op.nakihai)
    IN IF ~a.ok /\ haiyama_sensitive THEN BErr(g)
       ELSE LET c == de_chii(g.tehai[1], op.juntsu, op.nakihai)
            IN IF ~c.ok
               THEN BErr([g EXCEPT !.haiyama = backup, !.tehai = Some(c.tehai)])
               ELSE BOk([g EXCEPT !.haiyama = a.map, !.tehai = Some(c.tehai)])

\* The Pon arm of back_lack_one_hai.
BackPon(g, op, haiyama_sensitive) ==
    LET backup == g.haiyama
        a == HaiyamaAdd(g.haiyama, op.koutsu.hai)
    IN IF ~a.ok /\ haiyama_sensitive THEN BErr(g)
       ELSE LET c == de_pon(g.tehai[1], op.koutsu)
            IN IF ~c.ok
               THEN BErr([g EXCEPT !.haiyama = backup, !.tehai = Some(c.tehai)])
               ELSE BOk([g EXCEPT !.haiyama = a.map, !.tehai = Some(c.tehai)])

\* GameManager::back_lack_one_hai
back_lack_one_hai(g, op, haiyama_sensitive) ==
    IF op.type = "Add" THEN BackAdd(g, op)
    ELSE IF op.type = "Chii" /\ op.juntsu.kind = "Juntsu"
    THEN BackChii(g, op, haiyama_sensitive)
    ELSE IF op.type = "Pon" /\ op.koutsu.kind = "Koutsu"
    THEN BackPon(g, op, haiyama_sensitive)
    ELSE IF op.type = "Kan" THEN BackKan(g, op, haiyama_sensitive)
    ELSE IF op.type \in {"HaiyamaAdd", "HaiyamaDiscard"}
    THEN BackHaiyama(g, op, haiyama_sensitive)
    ELSE BErr(g)

\* GameManager::back_wait_for_rinshanhai
back_wait_for_rinshanhai(g, op, haiyama_sensitive) ==
    IF op.type = "Add" THEN BackAdd(g, op)
    ELSE IF op.type \in {"HaiyamaAdd", "HaiyamaDiscard"}
    THEN BackHaiyama(g, op, haiyama_sensitive)
    ELSE BErr(g)

\* The dispatch of GameManager::back on the state recorded in the popped entry.
BackDispatch(g, entry, haiyama_sensitive) ==
    IF entry.state = "WaitToInit"
    THEN back_wait_to_init(g, entry.op, haiyama_sensitive)
    ELSE IF entry.state = "FullHai"
    THEN back_full_hai(g, entry.op, haiyama_sensitive)
    ELSE IF entry.state = "LackOneHai"
    THEN back_lack_one_hai(g, entry.op, haiyama_sensitive)
    ELSE back_wait_for_rinshanhai(g, entry.op, haiyama_sensitive)

\* The end of GameManager::back without the push of the entry on failure.
BackFinishDropEntry(entry, r) ==
    IF r.ok
    THEN BOk([r.g EXCEPT !.state = entry.state,
                         !.sutehai_type = entry.sutehai_type])
    ELSE BErr(r.g)

\* The end of GameManager::back: on success state and sutehai_type are restored
\* from the entry, on failure the entry is pushed back.
BackFinish(entry, r) ==
    IF r.ok
    THEN BOk([r.g EXCEPT !.state = entry.state,
                         !.sutehai_type = entry.sutehai_type])
    ELSE BErr([r.g EXCEPT !.history = Append(r.g.history, entry)])

\* GameManager::back: pop, dispatch, finish.
back(g, haiyama_sensitive) ==
    IF g.history = <<>> THEN BErr(g)
    ELSE BackFinish(g.history[Len(g.history)],
             BackDispatch([g EXCEPT !.history =
                               SubSeq(g.history, 1, Len(g.history) - 1)],
                          g.history[Len(g.history)], haiyama_sensitive))

(***************************************************************************)
(* The session: the fields of GameManager, and `result`, what the latest   *)
(* call returned: "Ok", "Error", or "Unsupported" for the state-mismatch   *)
(* error; the player_number of the Controller, and `output`, what the      *)
(* latest parse or tile computation was applied to and returned.           *)
(***************************************************************************)
VARIABLES haiyama, tehai, sutehai_type, state, history, result,
          controller_player_number, output

vars == <<haiyama, tehai, sutehai_type, state, history, result,
          controller_player_number, output>>

Cur == Game(haiyama, tehai, sutehai_type, state, history)

\* Bound on the number of operations on the history stack.
MaxHistory == 3

\* Tiles the commands of a session are drawn from.
InputHai == {Manzu(1), Manzu(2)}

\* Runs a chii command can name.
InputJuntsu == {Juntsu(Manzu(1), Manzu(2), Manzu(3))}

\* Batches of the wall commands.
InputVec == {<<Manzu(2), Manzu(1)>>}

\* Hands typed at the prompt, as Tehai::new returns them (juntehai sorted, no
\* tile more than four times): 13 tiles, 14 tiles, 12 tiles, and one with a meld.
HandLack ==
    Tehai(<<Manzu(1), Manzu(1), Manzu(1), Manzu(2), Manzu(3),
            Pinzu(5), Pinzu(5), Pinzu(5), Souzu(7), Souzu(7), Souzu(7),
            Jihai(1), Jihai(1)>>, <<>>)
HandFull ==
    Tehai(<<Manzu(1), Manzu(1), Manzu(1), Manzu(1), Manzu(2), Manzu(3),
            Pinzu(5), Pinzu(5), Pinzu(5), Souzu(7), Souzu(7), Souzu(7),
            Jihai(1), Jihai(1)>>, <<>>)
HandTwelve ==
    Tehai(<<Manzu(1), Manzu(1), Manzu(2), Manzu(3),
            Pinzu(5), Pinzu(5), Pinzu(5), Souzu(7), Souzu(7), Souzu(7),
            Jihai(1), Jihai(1)>>, <<>>)
HandFuuro ==
    Tehai(<<Manzu(1), Manzu(1), Manzu(1), Manzu(2), Manzu(3),
            Pinzu(5), Pinzu(5), Pinzu(5), Jihai(1), Jihai(1)>>,
          <<Koutsu(Souzu(7))>>)
InputTehai == {HandLack, HandFull, HandTwelve, HandFuuro}

\* The operations the commands of command.rs build from these inputs, with the
\* strictness flags of S.  A chii names one of its three tiles as the called
\* tile (command.rs:129-134); a kan is four equal tiles, or four equal tiles and
\* another one (command.rs:150-193).
InitializeOps == {OpInitialize(t) : t \in InputTehai}
AddOps(S) == {OpAdd(hai, sens) : hai \in InputHai, sens \in S}
DiscardOps == {OpDiscard(hai) : hai \in InputHai}
ChiiOps(S) ==
    UNION {{OpChii(juntsu, nakihai, sens) :
                nakihai \in {juntsu.a, juntsu.b, juntsu.c}, sens \in S} :
           juntsu \in InputJuntsu}
PonOps(S) == {OpPon(Koutsu(hai), sens) : hai \in InputHai, sens \in S}
KanOps(S) ==
    UNION {{OpKan("Unknown", Kantsu(hai), rinshanhai, sens) :
                rinshanhai \in {None} \cup {Some(r) : r \in InputHai \ {hai}},
                sens \in S} :
           hai \in InputHai}
HaiyamaAddOps(S) == {OpHaiyamaAdd(hai_vec, sens) : hai_vec \in InputVec, sens \in S}
HaiyamaDiscardOps(S) ==
    {OpHaiyamaDiscard(hai_vec, sens) : hai_vec \in InputVec, sens \in S}

AllOps ==
    InitializeOps \cup AddOps(BOOLEAN) \cup DiscardOps \cup ChiiOps(BOOLEAN)
    \cup PonOps(BOOLEAN) \cup KanOps(BOOLEAN) \cup HaiyamaAddOps(BOOLEAN)
    \cup HaiyamaDiscardOps(BOOLEAN)

\* Nothing parsed or computed yet.
NoOutput == [fn |-> "none"]

Init ==
    /\ haiyama = GameNew.haiyama
    /\ tehai = GameNew.tehai
    /\ sutehai_type = GameNew.sutehai_type
    /\ state = GameNew.state
    /\ history = GameNew.history
    /\ result = "Ok"
    /\ controller_player_number = player_number
    /\ output = NoOutput

\* The session takes the game a call leaves and what the call returned.
Commit(r) ==
    /\ haiyama' = r.g.haiyama
    /\ tehai' = r.g.tehai
    /\ sutehai_type' = r.g.sutehai_type
    /\ state' = r.g.state
    /\ history' = r.g.history
    /\ result' = r.err
    /\ UNCHANGED <<controller_player_number, output>>

\* Controller::execute_core on a TehaiInput or GameOperation command, one action
\* per command; the guard keeps the history within the bound.
DoInitialize ==
    \E op \in InitializeOps :
        /\ Len(history) < MaxHistory
        /\ Commit(operate(Cur, op))
DoAdd(S) ==
    \E op \in AddOps(S) :
        /\ Len(history) < MaxHistory
        /\ Commit(operate(Cur, op))
DoDiscard ==
    \E op \in DiscardOps :
        /\ Len(history) < MaxHistory
        /\ Commit(operate(Cur, op))
DoChii(S) ==
    \E op \in ChiiOps(S) :
        /\ Len(history) < MaxHistory
        /\ Commit(operate(Cur, op))
DoPon(S) ==
    \E op \in PonOps(S) :
        /\ Len(history) < MaxHistory
        /\ Commit(operate(Cur, op))
DoKan(S) ==
    \E op \in KanOps(S) :
        /\ Len(history) < MaxHistory
        /\ Commit(operate(Cur, op))
DoHaiyamaAdd(S) ==
    \E op \in HaiyamaAddOps(S) :
        /\ Len(history) < MaxHistory
        /\ Commit(operate(Cur, op))
DoHaiyamaDiscard(S) ==
    \E op \in HaiyamaDiscardOps(S) :
        /\ Len(history) < MaxHistory
        /\ Commit(operate(Cur, op))

\* Controller::execute_core on a Back command.
DoBack(S) ==
    \E haiyama_sensitive \in BOOLEAN :
        /\ haiyama_sensitive \in S
        /\ Commit(back(Cur, haiyama_sensitive))

\* Every command, strict ("+", ">", "*+", "b") and error-ignoring ("+!", ...).
Next ==
    \/ DoInitialize
    \/ DoAdd(BOOLEAN)
    \/ DoDiscard
    \/ DoChii(BOOLEAN)
    \/ DoPon(BOOLEAN)
    \/ DoKan(BOOLEAN)
    \/ DoHaiyamaAdd(BOOLEAN)
    \/ DoHaiyamaDiscard(BOOLEAN)
    \/ DoBack(BOOLEAN)

Spec == Init /\ [][Next]_vars

\* A session in which every command is strict.
NextStrict ==
    \/ DoInitialize
    \/ DoAdd({TRUE})
    \/ DoDiscard
    \/ DoChii({TRUE})
    \/ DoPon({TRUE})
    \/ DoKan({TRUE})
    \/ DoHaiyamaAdd({TRUE})
    \/ DoHaiyamaDiscard({TRUE})
    \/ DoBack({TRUE})

SpecStrict == Init /\ [][NextStrict]_vars

(***************************************************************************)
(* The lines of the prompt.  Command::parse reads a line with the player   *)
(* number of the Controller; "3pl" and "4pl" set that number and give the  *)
(* session a new GameManager.                                              *)
(***************************************************************************)
\* The command prefixes of command.rs, and none (a hand).
InputPrefixes ==
    {
     <<"+">>, <<"+", "!">>, <<"-">>, <<"*", "+">>, <<"*", "!", "+">>,
     <<"*", "-">>, <<"*", "!", "-">>, <<">">>, <<">", "!">>, <<>>
    }

\* Arguments typed after a prefix: single tiles, batches, runs, triplets,
\* quads, a quad with its replacement tile, digits without a type, an unknown
\* character, melds in brackets, whole hands, hands with groups out of order,
\* with spaces and with several melds, and a bracket that is never closed.
InputArguments ==
    {
     <<"1", "m">>, <<"2", "m">>, <<"8", "m">>, <<"9", "m">>, <<"5", "p">>,
     <<"2", "1", "m">>, <<"2", " ", "m">>, <<"1", "2", "3", "m">>,
     <<"3", "1", "2", "m">>, <<"1", "1", "1", "m">>, <<"2", "2", "2", "m">>,
     <<"9", "9", "9", "m">>, <<"4", "5", "6", "p">>,
     <<"1", "1", "1", "1", "m">>, <<"2", "2", "2", "2", "m">>,
     <<"1", "1", "1", "1", "9", "m">>, <<"2", "2", "2", "2", "1", "m">>,
     <<"1", "m", "2", "m", "3", "m">>, <<"1", "2">>, <<"x", "1", "m">>,
     <<"[", "1", "2", "3", "m", "]">>, <<"[", "1", "1", "1", "m", "]">>,
     <<"[", "4", "5", "6", "p", "]">>,
     <<"1", "9", "m", "[", "1", "2", "3", "m", "]">>,
     <<"1", "1", "1", "m", "2", "3", "m", "5", "5", "5", "p", "7", "7", "7", "s", "1", "1", "z">>,
     <<"9", "9", "m", "2", "p", " ", "[", "5", "5", "5", "5", "z", "]", " ", "1", "z", "1", "2", "m", " ", "2", "p", "4", "5", "s", "3", "5", "m">>,
     <<"[", "4", "5", "6", "p", "]", "1", "z", "[", "1", "1", "1", "m", "]">>,
     <<"3", "m", "1", "z", "2", "p">>,
     <<"1", "m", "[", "2", "m">>,
     <<"[", "1", "1", "1", "m">>
    }

InputLines == {prefix \o argument : prefix \in InputPrefixes, argument \in InputArguments}

PlayerNumbers == {"Three", "Four"}

\* Controller::execute_core on a PlayerNumber command.
DoPlayerNumber ==
    \E number \in PlayerNumbers :
        /\ controller_player_number' = number
        /\ haiyama' = reinitialize(number).haiyama
        /\ tehai' = reinitialize(number).tehai
        /\ sutehai_type' = reinitialize(number).sutehai_type
        /\ state' = reinitialize(number).state
        /\ history' = reinitialize(number).history
        /\ result' = "Ok"
        /\ output' = NoOutput

\* Command::parse on a line that is none of the fixed words.
DoParse ==
    \E command \in InputLines :
        /\ output' = [fn |-> "parse", command |-> command,
                      number |-> controller_player_number,
                      r |-> parse_with_argument(command, controller_player_number)]
        /\ UNCHANGED <<haiyama, tehai, sutehai_type, state, history, result,
                       controller_player_number>>

NextParse ==
    \/ DoPlayerNumber
    \/ DoParse

SpecParse == Init /\ [][NextParse]_vars

\* Hai::next and Hai::previous on a valid tile of the player number.
DoNext ==
    \E hai \in all_type(controller_player_number), dora_loop \in BOOLEAN :
        /\ output' = [fn |-> "next", hai |-> hai, dora_loop |-> dora_loop,
                      number |-> controller_player_number,
                      r |-> next(hai, controller_player_number, dora_loop)]
        /\ UNCHANGED <<haiyama, tehai, sutehai_type, state, history, result,
                       controller_player_number>>

DoPrevious ==
    \E hai \in all_type(controller_player_number), dora_loop \in BOOLEAN :
        /\ output' = [fn |-> "previous", hai |-> hai, dora_loop |-> dora_loop,
                      number |-> controller_player_number,
                      r |-> previous(hai, controller_player_number, dora_loop)]
        /\ UNCHANGED <<haiyama, tehai, sutehai_type, state, history, result,
                       controller_player_number>>

NextHai ==
    \/ DoPlayerNumber
    \/ DoNext
    \/ DoPrevious

SpecHai == Init /\ [][NextHai]_vars

(***************************************************************************)
(* The analysis of a hand.                                                 *)
(***************************************************************************)
\* The partials Tehai::split builds for a player number: a suited tile with
\* its next tile, or with the one after that.
InputTaatsu(number) ==
    {Taatsu(a, b) : a \in {t \in all_type(number) : HaiSuit(t) # 3},
                    b \in all_type(number)} \cap
    {taatsu \in all_type(number) \X all_type(number) :
        \/ next(taatsu[1], number, FALSE) = Some(taatsu[2])
        \/ /\ next(taatsu[1], number, FALSE) # None
           /\ next(next(taatsu[1], number, FALSE)[1], number, FALSE) = Some(taatsu[2])}

\* The analysis functions are applied to one input after a PlayerNumber
\* command: output holds the one application made for the player number.

\* MachiCondition::handle_taatsu on a decomposer with one partial.
DoHandleTaatsu ==
    \E taatsu \in InputTaatsu(controller_player_number) :
        /\ output = NoOutput
        /\ output' = [fn |-> "handle_taatsu", taatsu |-> taatsu,
                      number |-> controller_player_number,
                      r |-> handle_taatsu(<<>>,
                                [DecomposerNew EXCEPT !.taatsu_vec = <<taatsu>>],
                                controller_player_number)]
        /\ UNCHANGED <<haiyama, tehai, sutehai_type, state, history, result,
                       controller_player_number>>

\* Bound on the length of the hands Tehai::split is applied to.
MaxSplitLen == 3

\* Sorted hands of two tiles and more, of valid tiles.
InputSplitJuntehai(number) ==
    UNION {{juntehai \in [1..n -> {Manzu(1), Manzu(2), Manzu(3), Pinzu(5), Jihai(1)}
                                           \cap all_type(number)] :
                \A i \in 1..(n - 1) : juntehai[i] <= juntehai[i + 1]} :
           n \in 2..MaxSplitLen}

\* Tehai::split on a hand, with the branches of its first call.
DoSplit ==
    \E juntehai \in InputSplitJuntehai(controller_player_number) :
        /\ output = NoOutput
        /\ output' = [fn |-> "split", juntehai |-> juntehai,
                      number |-> controller_player_number,
                      branches |-> SplitBranches(juntehai, controller_player_number),
                      r |-> split(juntehai, DecomposerNew, controller_player_number)]
        /\ UNCHANGED <<haiyama, tehai, sutehai_type, state, history, result,
                       controller_player_number>>

\* Tiles that take the place of a yaochuupai, or come as the fourteenth tile.
InputOtherHai == {Manzu(1), Manzu(2), Pinzu(5), Pinzu(9), Jihai(1), Jihai(7)}

\* Hands of fourteen tiles for the Kokushimusou form: the thirteen yaochuupai
\* with one of them replaced or not, and a fourteenth tile; the hands of the
\* tests; a hand of few yaochuupai.
InputKokushimusouJuntehai ==
    {Sort([k \in 1..14 |->
              IF k = 14 THEN last
              ELSE IF k = replaced THEN other ELSE yaochuupai_type[k]]) :
        replaced \in 0..13, other \in InputOtherHai, last \in InputOtherHai}
    \cup {<<Manzu(1), Manzu(2), Pinzu(9), Pinzu(9), Pinzu(9), Souzu(9), Jihai(1),
            Jihai(2), Jihai(3), Jihai(4), Jihai(5), Jihai(6), Jihai(6), Jihai(7)>>,
          <<Manzu(1), Manzu(1), Manzu(2), Manzu(2), Manzu(3), Manzu(3), Pinzu(4),
            Pinzu(4), Pinzu(7), Pinzu(8), Souzu(3), Souzu(5), Souzu(5), Souzu(7)>>,
          <<Manzu(1), Manzu(1), Manzu(1), Manzu(9), Manzu(9), Pinzu(2), Pinzu(3),
            Pinzu(4), Pinzu(5), Pinzu(6), Souzu(2), Souzu(3), Souzu(4), Jihai(5)>>}

\* The Kokushimusou part of Tehai::decompose on a hand of fourteen tiles and
\* no meld.
DoKokushimusou ==
    \E juntehai \in {j \in InputKokushimusouJuntehai :
                        /\ \A k \in 1..14 : is_valid(j[k], controller_player_number)
                        /\ check_hai_number(Tehai(j, <<>>))} :
        /\ output = NoOutput
        /\ output' = [fn |-> "kokushimusou", juntehai |-> juntehai,
                      number |-> controller_player_number,
                      decomposer |->
                          KokushimusouLoop(juntehai, 1, 1, TRUE, FALSE,
                              [DecomposerNew EXCEPT !.hourakei = "Kokushimusou"]),
                      r |-> shanten(
                                KokushimusouLoop(juntehai, 1, 1, TRUE, FALSE,
                                    [DecomposerNew EXCEPT !.hourakei = "Kokushimusou"]),
                                Len(juntehai))]
        /\ UNCHANGED <<haiyama, tehai, sutehai_type, state, history, result,
                       controller_player_number>>

\* Hands to analyze: the hands of the tests, the thirteen yaochuupai and
\* another tile, a hand that holds four of a tile it waits for, and hands of
\* five tiles beside melds.
InputAnalyzeTehai ==
    {Tehai(<<Manzu(1), Manzu(2), Manzu(9), Pinzu(1), Pinzu(9), Souzu(1), Souzu(9),
             Jihai(1), Jihai(2), Jihai(3), Jihai(4), Jihai(5), Jihai(6), Jihai(7)>>,
           <<>>),
     Tehai(<<Manzu(1), Manzu(9), Pinzu(1), Pinzu(5), Pinzu(9), Souzu(1), Souzu(9),
             Jihai(1), Jihai(2), Jihai(3), Jihai(4), Jihai(5), Jihai(6), Jihai(7)>>,
           <<>>),
     Tehai(<<Manzu(1), Manzu(2), Pinzu(9), Pinzu(9), Pinzu(9), Souzu(9), Jihai(1),
             Jihai(2), Jihai(3), Jihai(4), Jihai(5), Jihai(6), Jihai(6), Jihai(7)>>,
           <<>>),
     Tehai(<<Manzu(1), Manzu(1), Manzu(2), Manzu(2), Manzu(3), Manzu(3), Pinzu(4),
             Pinzu(4), Pinzu(7), Pinzu(8), Souzu(3), Souzu(5), Souzu(5), Souzu(7)>>,
           <<>>),
     Tehai(<<Manzu(1), Manzu(1), Manzu(9), Pinzu(1), Pinzu(9), Souzu(1), Souzu(9),
             Jihai(1), Jihai(2), Jihai(3), Jihai(4), Jihai(5), Jihai(6), Jihai(7)>>,
           <<>>),
     HandFull,
     Tehai(<<Manzu(1), Manzu(1), Manzu(1), Manzu(1), Manzu(2), Manzu(3),
             Pinzu(5), Pinzu(5), Pinzu(5), Souzu(7), Souzu(7), Souzu(7),
             Jihai(1), Jihai(2)>>, <<>>),
     Tehai(<<Pinzu(1), Pinzu(1), Pinzu(1), Pinzu(1), Pinzu(2), Pinzu(3),
             Pinzu(5), Pinzu(5), Pinzu(5), Souzu(7), Souzu(7), Souzu(7),
             Jihai(1), Jihai(2)>>, <<>>),
     Tehai(<<Pinzu(1), Pinzu(1), Pinzu(2), Souzu(4), Jihai(3)>>,
           <<Koutsu(Souzu(9)), Juntsu(Pinzu(6), Pinzu(7), Pinzu(8)),
             Kantsu(Jihai(5))>>),
     Tehai(<<Souzu(2), Souzu(3), Souzu(5), Souzu(5), Jihai(3)>>,
           <<Kantsu(Souzu(1)), Koutsu(Pinzu(9)), Koutsu(Jihai(5))>>),
     Tehai(<<Pinzu(2), Pinzu(3), Souzu(5), Souzu(5), Jihai(3)>>,
           <<Kantsu(Pinzu(1)), Koutsu(Souzu(9)), Koutsu(Jihai(5))>>)}

\* The game managers an analysis of t is given: none when the controller is
\* not interactive; else the game manager after the hand was set and tiles left
\* the haiyama (a hand with melds cannot be set).
InputGameManager(t, number) ==
    {None}
    \cup {Some(operate(operate(reinitialize(number), OpInitialize(t)).g,
                       OpHaiyamaDiscard(hai_vec, FALSE)).g) :
             hai_vec \in IF operate(reinitialize(number), OpInitialize(t)).ok
                         THEN {<<>>, <<Pinzu(6), Pinzu(6), Pinzu(6), Pinzu(6)>>,
                               <<Jihai(1), Jihai(1), Jihai(1), Souzu(4)>>}
                         ELSE {}}

\* Tehai::analyze, on the hand of the game manager when there is one.
DoAnalyze ==
    \E t \in {h \in InputAnalyzeTehai :
                 \A hai \in all_type("Four") :
                     HaiNumber(h, hai) > 0 => is_valid(hai, controller_player_number)} :
        \E game_manager \in InputGameManager(t, controller_player_number),
           descending \in BOOLEAN :
            /\ output = NoOutput
            /\ output' = [fn |-> "analyze", t |-> t,
                          number |-> controller_player_number,
                          game_manager |-> game_manager,
                          r |-> analyze(t, controller_player_number, game_manager,
                                        descending)]
            /\ UNCHANGED <<haiyama, tehai, sutehai_type, state, history, result,
                           controller_player_number>>

NextAnalyze ==
    \/ DoPlayerNumber
    \/ DoHandleTaatsu
    \/ DoSplit
    \/ DoKokushimusou
    \/ DoAnalyze

SpecAnalyze == Init /\ [][NextAnalyze]_vars

(***************************************************************************)
(* Properties.                                                             *)
(***************************************************************************)
\* The latest entry of the history.
Top == history[Len(history)]

\* The free part and the called melds of the hand, when there is a hand.
Free == tehai[1].juntehai
Fixed == tehai[1].fuuro

\* C1: when every operation of the history has been undone by strict backs, the
\* haiyama is the initial one, there is no hand, the state is WaitToInit and the
\* set of discarded tile types is empty.
UndoRoundTrip == (history = <<>>) => (Cur = GameNew)

\* C2: an operate call that returns an error leaves haiyama, tehai,
\* sutehai_type, state and history exactly as they were before the call.
OperateAtomic ==
    \A op \in AllOps :
        LET r == operate(Cur, op)
        IN ~r.ok => r.g = Cur

\* A call has failed, and in this state a kan whose tile the haiyama can give
\* fails inside Tehai::kan, after the haiyama has been changed.
OperateAtomicWitness ==
    /\ result = "Error"
    /\ state = "LackOneHai"
    /\ \E op \in KanOps({TRUE}) :
          /\ HaiyamaDiscard(haiyama, op.kantsu.hai).ok
          /\ ~operate(Cur, op).ok

\* tiles of the hand, a called meld counting three
HandSize == Len(Free) + 3 * Len(Fixed)

\* C3: the state is FullHai exactly when the hand counts 14 tiles, it counts 13
\* in LackOneHai and in WaitForRinshanhai, and the state is WaitToInit exactly
\* when there is no hand.
StateMatchesHand ==
    /\ (state = "WaitToInit") <=> (tehai = None)
    /\ (state = "FullHai") <=> (tehai # None /\ HandSize = 14)
    /\ state \in {"LackOneHai", "WaitForRinshanhai"} => HandSize = 13

\* A chii has made the hand full: eleven free tiles and the called run.
StateMatchesHandWitness ==
    /\ state = "FullHai"
    /\ history # <<>>
    /\ Top.op.type = "Chii"
    /\ Fixed = <<Top.op.juntsu>>
    /\ Len(Free) = 11

\* C4: every count of the haiyama is within 0..4 after any sequence of calls.
WallRange ==
    \A hai \in all_type(player_number) : haiyama[hai] \in 0..HaiLimit

\* An error-ignoring draw of a tile the haiyama had none of has succeeded.
WallRangeWitness ==
    /\ history # <<>>
    /\ Top.op = OpAdd(Manzu(1), FALSE)
    /\ haiyama[Manzu(1)] = 0

\* Wall[hai] + copies of hai in the free part + copies of hai in the melds.
Total(hai) ==
    haiyama[hai] + (IF tehai = None THEN 0 ELSE HaiNumber(tehai[1], hai))

\* C5, as the claim states it: in a session of strict commands the haiyama and
\* the hand together hold exactly four copies of every tile.
TileConservation == \A hai \in all_type(player_number) : Total(hai) = HaiLimit

\* the step pushes an operation on the history
Pushes == Len(history') = Len(history) + 1

\* C5: in a session of strict commands every successful Initialize, Add, Chii,
\* Pon, Daiminkan and Ankan leaves, for every tile, the copies held by the
\* haiyama and the hand together unchanged, and a successful Discard lowers
\* them by one for the discarded tile and leaves them for every other tile.
StrictPlayConserves ==
    [][Pushes =>
        LET op == history'[Len(history')].op
        IN /\ (\/ op.type \in {"Initialize", "Add", "Chii", "Pon"}
               \/ op.type = "Kan" /\ op.kan \in {"Daiminkan", "Ankan"})
              => \A hai \in all_type(player_number) : Total(hai)' = Total(hai)
           /\ op.type = "Discard"
              => \A hai \in all_type(player_number) :
                    Total(hai)' = IF hai = op.hai THEN Total(hai) - 1
                                                  ELSE Total(hai)]_vars

\* A tile drawn from the haiyama has been discarded: three copies are left.
StrictPlayConservesWitness ==
    /\ Len(history) = 3
    /\ history[1].op.type = "Initialize"
    /\ history[2].op.type = "Add"
    /\ history[3].op.type = "Discard"
    /\ Total(history[3].op.hai) = HaiLimit - 1
    /\ \A hai \in all_type(player_number) \ {history[3].op.hai} :
          Total(hai) = HaiLimit

\* C6: no tile occurs more than four times in the hand, the free part and the
\* melds together.
HandCopyLimit == (tehai # None) => check_hai_number(tehai[1])

\* the melds hold no Koutsu and no Kantsu of hai
NoMeldOf(hai) == \A i \in 1..Len(Fixed) : Fixed[i] \notin {Koutsu(hai), Kantsu(hai)}

\* C7: in state FullHai a Kan of a tile that is once in the free part and whose
\* Koutsu is among the melds succeeds, resolves to Kakan, and puts the Kantsu in
\* the place of the Koutsu.
AddedKanResolves ==
    \A hai \in InputHai, sens \in BOOLEAN :
        (/\ state = "FullHai"
         /\ CountIn(Free, hai) = 1
         /\ FirstIndex(Fixed, Koutsu(hai)) # 0)
        => LET r == operate(Cur, OpKan("Unknown", Kantsu(hai), None, sens))
           IN /\ r.ok
              /\ r.op.kan = "Kakan"
              /\ r.g.tehai[1].fuuro =
                     [Fixed EXCEPT ![FirstIndex(Fixed, Koutsu(hai))] = Kantsu(hai)]

\* vec without its copies of x
Without(vec, x) == SelectSeq(vec, LAMBDA y : y # x)

\* C8: in state FullHai a Kan, without replacement tile, of a tile that is four
\* times in the free part and has no meld succeeds, is recorded as Ankan, moves
\* the four copies into a Kantsu, leaves the haiyama alone and sets the state to
\* WaitForRinshanhai; in that state a successful Add of a tile puts the tile
\* into the free part and sets the state to FullHai.
ConcealedKanDeferred ==
    /\ \A hai \in InputHai, sens \in BOOLEAN :
          (state = "FullHai" /\ CountIn(Free, hai) = 4 /\ NoMeldOf(hai))
          => LET r == operate(Cur, OpKan("Unknown", Kantsu(hai), None, sens))
             IN /\ r.ok
                /\ r.g.history[Len(r.g.history)].op =
                       OpKan("Ankan", Kantsu(hai), None, sens)
                /\ r.g.tehai = Some(Tehai(Without(Free, hai),
                                          Append(Fixed, Kantsu(hai))))
                /\ r.g.haiyama = haiyama
                /\ r.g.state = "WaitForRinshanhai"
    /\ \A op \in AddOps(BOOLEAN) :
          state = "WaitForRinshanhai"
          => LET r == operate(Cur, op)
             IN r.ok => /\ r.g.state = "FullHai"
                        /\ r.g.tehai = Some(Tehai(Sort(Append(Free, op.hai)), Fixed))

\* An Ankan without replacement tile, then the Add that completes it.
ConcealedKanDeferredWitness ==
    /\ Len(history) = 3
    /\ history[2].op.type = "Kan"
    /\ history[2].op.kan = "Ankan"
    /\ history[2].op.rinshanhai = None
    /\ history[3].op.type = "Add"
    /\ history[3].state = "WaitForRinshanhai"
    /\ state = "FullHai"
    /\ Len(Free) = 11
    /\ Fixed = <<history[2].op.kantsu>>

\* The kan commands on hai.
KanOpsOf(hai) == {op \in KanOps(BOOLEAN) : op.kantsu.hai = hai}

\* The haiyama after an error-ignoring or successful discard of each tile of a
\* set: a positive count is one less, a zero count stays.
Decremented(tiles) ==
    [hai \in all_type(player_number) |->
        IF hai \in tiles /\ haiyama[hai] > 0 THEN haiyama[hai] - 1 ELSE haiyama[hai]]

\* The tiles a kan takes from the haiyama in state LackOneHai.
KanTiles(op) ==
    {op.kantsu.hai} \cup (IF op.rinshanhai # None THEN {op.rinshanhai[1]} ELSE {})

\* The situations in which the claim says a Kan is rejected.
KanRejected(hai) ==
    \/ state = "FullHai" /\ CountIn(Free, hai) \in {2, 3}
    \/ state = "FullHai" /\ CountIn(Free, hai) = 1 /\ NoMeldOf(hai)
    \/ state = "LackOneHai" /\ CountIn(Free, hai) # 3

\* C9, as the claim states it: in state LackOneHai a Kan of a tile that is
\* exactly three times in the free part resolves to Daiminkan, the count of the
\* tile in the haiyama is decremented and the three copies are moved into a
\* Kantsu; in every other Kan situation the Kan is rejected and changes nothing.
CalledKanAlways ==
    \A hai \in InputHai : \A op \in KanOpsOf(hai) :
        LET r == operate(Cur, op)
        IN /\ (state = "LackOneHai" /\ CountIn(Free, hai) = 3)
              => /\ r.ok
                 /\ r.op.kan = "Daiminkan"
                 /\ r.g.haiyama[hai] = haiyama[hai] - 1
                 /\ CountIn(r.g.tehai[1].juntehai, hai) = 0
                 /\ r.g.tehai[1].fuuro = Append(Fixed, Kantsu(hai))
           /\ KanRejected(hai) => (~r.ok /\ r.g = Cur)

\* C9: in state LackOneHai a Kan of a tile that is exactly three times in the
\* free part and has no Kantsu among the melds resolves to Daiminkan when it is
\* error-ignoring or the haiyama holds the tile and the replacement tile named
\* with it: each of these tiles the haiyama holds is decremented there, and the
\* three copies are moved into a Kantsu.  A strict Kan of such a tile that the
\* haiyama cannot serve is rejected and changes nothing, and so is a Kan in
\* every other Kan situation.
CalledKanResolves ==
    \A hai \in InputHai : \A op \in KanOpsOf(hai) :
        LET r == operate(Cur, op)
            served == \A t \in KanTiles(op) : haiyama[t] > 0
        IN /\ (/\ state = "LackOneHai"
               /\ CountIn(Free, hai) = 3
               /\ FirstIndex(Fixed, Kantsu(hai)) = 0)
              => IF ~op.haiyama_sensitive \/ served
                 THEN /\ r.ok
                      /\ r.op.kan = "Daiminkan"
                      /\ r.g.haiyama = Decremented(KanTiles(op))
                      /\ CountIn(r.g.tehai[1].juntehai, hai) = 0
                      /\ r.g.tehai[1].fuuro = Append(Fixed, Kantsu(hai))
                      /\ r.g.state = KanState(op)
                 ELSE ~r.ok /\ r.g = Cur
           /\ KanRejected(hai) => (~r.ok /\ r.g = Cur)

\* A Daiminkan has moved three copies into a Kantsu and taken the fourth from
\* the haiyama, and a Kan of a tile that is not three times in the free part has
\* been rejected.
CalledKanResolvesWitness ==
    /\ history # <<>>
    /\ Top.op.type = "Kan"
    /\ Top.op.kan = "Daiminkan"
    /\ Top.state = "LackOneHai"
    /\ Fixed = <<Top.op.kantsu>>
    /\ CountIn(Free, Top.op.kantsu.hai) = 0

\* The pairs of a state and an operation the claim lists as rejected.
Mismatch(st, type) ==
    \/ type = "Initialize" /\ st # "WaitToInit"
    \/ st = "FullHai" /\ type \in {"Add", "Chii", "Pon"}
    \/ st = "LackOneHai" /\ type = "Discard"
    \/ st = "WaitForRinshanhai" /\ type \in {"Discard", "Chii", "Pon", "Kan"}
    \/ st = "WaitToInit" /\ type \in {"Add", "Discard", "Chii", "Pon", "Kan"}

\* C10: an operation that does not fit the state (Initialize outside WaitToInit;
\* Add, Chii, Pon in FullHai; Discard in LackOneHai; Discard, Chii, Pon, Kan in
\* WaitForRinshanhai; Add, Discard and every call in WaitToInit) is rejected
\* with the unsupported-operation error and changes nothing.
MismatchRejected ==
    \A op \in AllOps :
        Mismatch(state, op.type)
        => LET r == operate(Cur, op)
           IN r.err = "Unsupported" /\ r.g = Cur

\* A command has been rejected as unsupported while a kan waited for its
\* replacement tile.
MismatchRejectedWitness ==
    /\ result = "Unsupported"
    /\ state = "WaitForRinshanhai"
    /\ history # <<>>
    /\ Top.op.type = "Kan"

\* the operation the step pushes on the history
Pushed == history'[Len(history')].op

\* C11: a successful operation moves the state as the table says: Initialize
\* to FullHai with 14 free tiles and to LackOneHai with 13; Discard from FullHai
\* to LackOneHai; Add from LackOneHai or WaitForRinshanhai to FullHai; Chii and
\* Pon from LackOneHai to FullHai; Kan to FullHai with a replacement tile and to
\* WaitForRinshanhai without one; the haiyama commands leave state and hand.
TransitionTargets ==
    [][Pushes =>
        /\ Pushed.type = "Initialize"
           => state' = IF Len(Pushed.tehai.juntehai) = 14 THEN "FullHai"
                                                         ELSE "LackOneHai"
        /\ Pushed.type = "Discard" => (state = "FullHai" /\ state' = "LackOneHai")
        /\ Pushed.type = "Add"
           => (state \in {"LackOneHai", "WaitForRinshanhai"} /\ state' = "FullHai")
        /\ Pushed.type \in {"Chii", "Pon"}
           => (state = "LackOneHai" /\ state' = "FullHai")
        /\ Pushed.type = "Kan"
           => state' = IF Pushed.rinshanhai # None THEN "FullHai"
                                                   ELSE "WaitForRinshanhai"
        /\ Pushed.type \in {"HaiyamaAdd", "HaiyamaDiscard"}
           => (state' = state /\ tehai' = tehai)]_vars

\* A Kan without replacement tile has been followed by a haiyama command, and
\* the hand still waits for the replacement.
TransitionTargetsWitness ==
    /\ Len(history) = 3
    /\ history[2].op.type = "Kan"
    /\ history[2].op.rinshanhai = None
    /\ history[3].op.type \in {"HaiyamaAdd", "HaiyamaDiscard"}
    /\ history[3].state = "WaitForRinshanhai"
    /\ state = "WaitForRinshanhai"

\* C12: after a successful strict Add of a tile, from LackOneHai or
\* WaitForRinshanhai, a successful strict back takes one copy of the tile out
\* of the free part and returns it to the haiyama: haiyama and hand are as they
\* were before the Add.
UndoOfDraw ==
    \A op \in AddOps({TRUE}) :
        state \in {"LackOneHai", "WaitForRinshanhai"}
        => LET drawn == operate(Cur, op)
               undone == back(drawn.g, TRUE)
           IN (drawn.ok /\ undone.ok)
              => /\ undone.g.tehai = tehai
                 /\ undone.g.haiyama = haiyama

\* The strict Chii and Pon commands.
StrictCalls == ChiiOps({TRUE}) \cup PonOps({TRUE})

\* C13: a strict Chii or Pon immediately followed by a successful strict back
\* leaves the haiyama, the hand, the state (LackOneHai) and the history as they
\* were before the call.
UndoOfCall ==
    \A op \in StrictCalls :
        LET called == operate(Cur, op)
            undone == back(called.g, TRUE)
        IN (called.ok /\ undone.ok) => undone.g = Cur

\* What holds of that undo in every state: everything is as before the call
\* but the order of the free part, which comes back in ascending order.
UndoOfCallUpToOrder ==
    \A op \in StrictCalls :
        LET called == operate(Cur, op)
            undone == back(called.g, TRUE)
        IN (called.ok /\ undone.ok)
           => undone.g = [Cur EXCEPT !.tehai = Some(Tehai(Sort(Free), Fixed))]

\* The haiyama after a successful add of each tile of a set: a count below the
\* limit is one more; a count at the limit stays, which only an error-ignoring
\* back lets pass.
Incremented(tiles) ==
    [hai \in all_type(player_number) |->
        IF hai \in tiles /\ haiyama[hai] < HaiLimit THEN haiyama[hai] + 1
                                                    ELSE haiyama[hai]]

\* The latest operation is a Daiminkan or an Ankan done with a replacement tile.
TopIsKanWithRinshanhai ==
    /\ history # <<>>
    /\ Top.op.type = "Kan"
    /\ Top.op.kan \in {"Daiminkan", "Ankan"}
    /\ Top.op.rinshanhai # None

DiscardTracked ==
    (history # <<>> /\ Top.op.type = "Discard") => Top.op.hai \in sutehai_type

\* The haiyama commands.
HaiyamaOps == HaiyamaAddOps(BOOLEAN) \cup HaiyamaDiscardOps(BOOLEAN)

\* The count of hai after a batch, before any clamping.
BatchTarget(op, hai) ==
    IF op.type = "HaiyamaAdd" THEN haiyama[hai] + CountIn(op.hai_vec, hai)
                              ELSE haiyama[hai] - CountIn(op.hai_vec, hai)

\* the value clamped into 0..HaiLimit
Clamp(n) == IF n < 0 THEN 0 ELSE IF n > HaiLimit THEN HaiLimit ELSE n

\* C16: a strict haiyama batch fails and leaves the whole haiyama unchanged when
\* a tile of the batch would leave 0..4, and is applied otherwise; an
\* error-ignoring batch always succeeds and every tile of the batch is applied
\* with clamping into 0..4.
WallBatches ==
    \A op \in HaiyamaOps :
        LET r == operate(Cur, op)
            fits == \A hai \in all_type(player_number) :
                        BatchTarget(op, hai) \in 0..HaiLimit
        IN IF op.haiyama_sensitive /\ ~fits
           THEN ~r.ok /\ r.g.haiyama = haiyama
           ELSE /\ r.ok
                /\ r.g.haiyama =
                       [hai \in all_type(player_number) |-> Clamp(BatchTarget(op, hai))]

\* The kinds a Kan resolves to.
ResolvedKinds == {"Kakan", "Ankan", "Daiminkan"}

\* C17: a successful operate appends exactly one entry, made of the operation,
\* the state before it and sutehai_type before it, and a failed operate appends
\* nothing; a Kan is recorded with the kind it resolved to, so no entry of the
\* history holds an unresolved Kan.
HistoryRecording ==
    /\ \A op \in AllOps :
          LET r == operate(Cur, op)
          IN IF r.ok
             THEN \E recorded \in IF op.type = "Kan"
                                  THEN {[op EXCEPT !.kan = k] : k \in ResolvedKinds}
                                  ELSE {op} :
                      r.g.history = Append(history,
                                           [op |-> recorded, state |-> state,
                                            sutehai_type |-> sutehai_type])
             ELSE r.g.history = history
    /\ \A i \in 1..Len(history) :
          history[i].op.type = "Kan" => history[i].op.kan \in ResolvedKinds

\* A Kan has been recorded as the second entry, with its kind and the state it
\* was called in, and a later call has failed.
HistoryRecordingWitness ==
    /\ Len(history) = 2
    /\ history[1] = [op |-> OpInitialize(HandLack), state |-> "WaitToInit",
                     sutehai_type |-> {}]
    /\ history[2].op.type = "Kan"
    /\ history[2].op.kan = "Daiminkan"
    /\ history[2].state = "LackOneHai"
    /\ result = "Unsupported"

\* C18: a back that fails, on an empty history or on an inverse step, returns
\* an error and leaves the history, with the popped entry back on top, and the
\* haiyama, the hand, the state and sutehai_type exactly as before the call.
BackAtomic ==
    \A haiyama_sensitive \in BOOLEAN :
        LET undone == back(Cur, haiyama_sensitive)
        IN /\ history = <<>> => ~undone.ok
           /\ ~undone.ok => (undone.err = "Error" /\ undone.g = Cur)

\* A strict back of a Kan has failed on the haiyama, after the entry was popped.
BackAtomicWitness ==
    /\ result = "Error"
    /\ history # <<>>
    /\ Top.op.type = "Kan"
    /\ ~back(Cur, TRUE).ok

\* The line names a Character tile of rank 2..8: one of the digits 2..8, then
\* only digits and spaces, then the type character m.
NamesMiddleCharacter(string) ==
    \E i \in 1..Len(string), j \in 1..Len(string) :
        /\ i < j
        /\ string[i] \in {"2", "3", "4", "5", "6", "7", "8"}
        /\ string[j] = "m"
        /\ \A k \in (i + 1)..(j - 1) : string[k] \in DigitChars \cup {" "}

MiddleCharacters == {Manzu(i) : i \in 2..8}

\* The melds of a parsed command: the run of a chii, the melds of a hand.
ParsedMentsu(command) ==
    IF command.type = "TehaiInput"
    THEN {command.tehai.fuuro[k] : k \in 1..Len(command.tehai.fuuro)}
    ELSE IF command.op.type = "Chii" THEN {command.op.juntsu}
    ELSE {}

\* C19: with the player number Three, a line that names a Character tile of
\* rank 2..8 is refused by the parser, whether it is a hand or the argument
\* of a draw, discard, wall or call command; no parsed command carries a
\* Character run, and Mentsu::new makes no run of three Character tiles; the
\* wall of a three-player session has no entry for a Character tile 2..8.
ThreePlayerValidity ==
    /\ (output.fn = "parse" /\ output.number = "Three")
            => /\ NamesMiddleCharacter(output.command) => ~output.r.ok
               /\ output.r.ok =>
                      \A mentsu \in ParsedMentsu(output.r.command[1]) :
                          ~(mentsu.kind = "Juntsu" /\ HaiSuit(mentsu.a) = 0)
    /\ \A hai_vec \in [1..3 -> {Manzu(i) : i \in 1..9}] :
            \/ MentsuNew(hai_vec, "Three") = None
            \/ MentsuNew(hai_vec, "Three")[1].kind # "Juntsu"
    /\ controller_player_number = "Three"
            => DOMAIN haiyama \cap MiddleCharacters = {}

\* A three-player session has refused a line with a Character tile of rank
\* 2..8 that a four-player session accepts.
ThreePlayerValidityWitness ==
    /\ output.fn = "parse"
    /\ output.number = "Three"
    /\ NamesMiddleCharacter(output.command)
    /\ ~output.r.ok
    /\ parse_with_argument(output.command, "Four").ok
    /\ DOMAIN haiyama = all_type("Three")

Winds == {Jihai(i) : i \in 1..4}
Dragons == {Jihai(i) : i \in 5..7}

\* C20: the neighbour of a wind is a wind and the neighbour of a dragon is a
\* dragon, for both player numbers, with and without the dora loop: the next
\* of Jihai(4) is not Jihai(5) and the previous of Jihai(5) is not Jihai(4).
HonorRings ==
    (output.fn \in {"next", "previous"} /\ output.r # None)
        => /\ output.hai \in Winds => output.r[1] \notin Dragons
           /\ output.hai \in Dragons => output.r[1] \notin Winds

\* The ring of a valid tile: its suit among the valid tiles of the player
\* number, the winds, or the dragons.
Ring(hai, number) ==
    IF hai \in Winds THEN Winds
    ELSE IF hai \in Dragons THEN Dragons
    ELSE {t \in all_type(number) : HaiSuit(t) = HaiSuit(hai)}

\* C21: with the dora loop the next and the previous of a valid tile exist, stay
\* in the ring of the tile and are undone by the other function, so that
\* previous(next(t)) = t and next(previous(t)) = t; without the dora loop a
\* suited 1 has no previous and a suited 9 has no next.
DoraLoopNeighbours ==
    /\ (output.fn = "next" /\ output.dora_loop)
            => /\ output.r # None
               /\ output.r[1] \in Ring(output.hai, output.number)
               /\ previous(output.r[1], output.number, TRUE) = Some(output.hai)
    /\ (output.fn = "previous" /\ output.dora_loop)
            => /\ output.r # None
               /\ output.r[1] \in Ring(output.hai, output.number)
               /\ next(output.r[1], output.number, TRUE) = Some(output.hai)
    /\ (output.fn = "previous" /\ ~output.dora_loop
            /\ HaiSuit(output.hai) \in {0, 1, 2} /\ HaiNum(output.hai) = 1)
            => output.r = None
    /\ (output.fn = "next" /\ ~output.dora_loop
            /\ HaiSuit(output.hai) \in {0, 1, 2} /\ HaiNum(output.hai) = 9)
            => output.r = None

\* The next of the north wind, with the dora loop, in a three-player session.
DoraLoopNeighboursWitness ==
    /\ output.fn = "next"
    /\ output.dora_loop
    /\ output.number = "Three"
    /\ output.hai = Jihai(4)
    /\ output.r = Some(Jihai(1))

\* Positions of a string: the digits, the brackets opened and closed before a
\* position, and the tile a digit stands for, which takes its type from the
\* first type character after it.
DigitPositions(string) == {i \in 1..Len(string) : string[i] \in DigitChars}
Opened(string, i) == Cardinality({k \in 1..(i - 1) : string[k] = "["})
Closed(string, i) == Cardinality({k \in 1..(i - 1) : string[k] = "]"})
TileAt(string, i) ==
    StashHai(string[CHOOSE j \in (i + 1)..Len(string) :
                        /\ string[j] \in TypeChars
                        /\ \A k \in (i + 1)..(j - 1) : string[k] \notin TypeChars],
             string[i])
OutsideBrackets(string) ==
    {i \in DigitPositions(string) : Opened(string, i) = Closed(string, i)}
InBracket(string, n) ==
    {i \in DigitPositions(string) :
        Opened(string, i) = n /\ Closed(string, i) = n - 1}
WithoutSpaces(string) == SelectSeq(string, LAMBDA chr : chr # " ")

\* The latest line was read as a hand.
ParsedTehai ==
    /\ output.fn = "parse"
    /\ output.r.ok
    /\ output.r.command[1].type = "TehaiInput"

MentsuSize(mentsu) == IF mentsu.kind = "Kantsu" THEN 4 ELSE 3

RECURSIVE FuuroSize(_)
FuuroSize(fuuro) ==
    IF fuuro = <<>> THEN 0 ELSE MentsuSize(Head(fuuro)) + FuuroSize(Tail(fuuro))

\* C30: when Tehai::new accepts a line, the tiles of juntehai and of the melds
\* of fuuro are as many as the digits of the line, and a line with a bracket
\* that is opened and never closed is not accepted.
ParserConservation ==
    ParsedTehai =>
        /\ Len(output.r.command[1].tehai.juntehai)
               + FuuroSize(output.r.command[1].tehai.fuuro)
               = Cardinality(DigitPositions(output.command))
        /\ Opened(output.command, Len(output.command) + 1)
               = Closed(output.command, Len(output.command) + 1)

\* C28: whenever the session has a hand, its juntehai is in ascending tile
\* order, after every operation and every undo.
SortedHand ==
    tehai # None =>
        \A i \in 1..(Len(Free) - 1) : Free[i] <= Free[i + 1]

\* The error-ignoring operations of the commands, and the strict operation of
\* the same command.
IgnoringOps == {op \in AllOps : "haiyama_sensitive" \in DOMAIN op /\ ~op.haiyama_sensitive}
StrictOf(op) == [op EXCEPT !.haiyama_sensitive = TRUE]

\* C26: an error-ignoring operation that succeeds where the strict operation
\* fails leaves a session in which a strict back fails and keeps the history.
IgnoredErrorUndo ==
    \A op \in IgnoringOps :
        (operate(Cur, op).ok /\ ~operate(Cur, StrictOf(op)).ok)
            => /\ ~back(operate(Cur, op).g, TRUE).ok
               /\ back(operate(Cur, op).g, TRUE).g.history = operate(Cur, op).g.history

\* C29: in a session whose commands are all strict, a strict back succeeds
\* whenever the history is not empty.
StrictBackSucceeds ==
    history # <<>> => back(Cur, TRUE).ok

\* C23: the waits of a partial of two neighbouring numbers are the previous of
\* its lower tile and the next of its higher tile, without the dora loop, as
\* far as they exist, in each of the three suits; the wait of a partial with a
\* gap is the tile in the gap.
TaatsuWaits ==
    output.fn = "handle_taatsu" =>
        DOMAIN output.r =
            IF HaiNum(output.taatsu[2]) = HaiNum(output.taatsu[1]) + 1
            THEN OptionSet(previous(output.taatsu[1], output.number, FALSE))
                     \cup OptionSet(next(output.taatsu[2], output.number, FALSE))
            ELSE {output.taatsu[1] + 1}

\* C27: when the first tile t of the hand is a suited tile and the tile two
\* numbers above it is in the hand, split explores the branch that takes t and
\* that tile as a partial with a gap, whether or not the tile between them is
\* in the hand.
GappedPartialExplored ==
    (/\ output.fn = "split"
     /\ HaiSuit(output.juntehai[1]) # 3
     /\ HaiNum(output.juntehai[1]) <= 7
     /\ output.juntehai[1] + 2 \in Range(output.juntehai))
        => [kind |-> "taatsu", hai |-> <<output.juntehai[1], output.juntehai[1] + 2>>]
               \in output.branches

\* The same when the tile between them is not in the hand.
GappedPartialWhenMissing ==
    (/\ output.fn = "split"
     /\ HaiSuit(output.juntehai[1]) # 3
     /\ HaiNum(output.juntehai[1]) <= 7
     /\ output.juntehai[1] + 2 \in Range(output.juntehai)
     /\ output.juntehai[1] + 1 \notin Range(output.juntehai))
        => [kind |-> "taatsu", hai |-> <<output.juntehai[1], output.juntehai[1] + 2>>]
               \in output.branches

\* The tiles of the hand analyzed that are the thirteen yaochuupai and one
\* other tile that is no yaochuupai.
ThirteenAndOther(juntehai) ==
    /\ Len(juntehai) = 14
    /\ Range(yaochuupai_type) \subseteq Range(juntehai)
    /\ Cardinality(Range(juntehai)) = 14

AnalyzeOrdering ==
    (output.fn = "analyze" /\ output.r.ok) =>
        /\ \A i, j \in 1..Len(output.r.conditions) :
               i < j =>
                   /\ nokori(output.r.conditions[i]) >= nokori(output.r.conditions[j])
                   /\ nokori(output.r.conditions[i]) = nokori(output.r.conditions[j])
                          => output.r.conditions[i].sutehai
                                 < output.r.conditions[j].sutehai
                   /\ output.r.conditions[i].sutehai # output.r.conditions[j].sutehai
        /\ \A i \in 1..Len(output.r.conditions) :
               /\ nokori(output.r.conditions[i]) > 0
               /\ \A hai \in DOMAIN output.r.conditions[i].machihai :
                      output.r.conditions[i].machihai[hai] \in 1..4

\* Reached: an analysis with a game manager returned conditions of which two
\* tie on the remaining count and two differ in it.
AnalyzeOrderingWitness ==
    /\ output.fn = "analyze"
    /\ output.r.ok
    /\ output.game_manager # None
    /\ \E i, j \in 1..Len(output.r.conditions) :
           /\ i < j
           /\ nokori(output.r.conditions[i]) = nokori(output.r.conditions[j])
    /\ \E i, j \in 1..Len(output.r.conditions) :
           nokori(output.r.conditions[i]) > nokori(output.r.conditions[j])

====
